---- MODULE Spec2Model ----
(***************************************************************************)
(* Umbra reverb engine: the circular delay line, the recursive running-sum *)
(* filter, the Hadamard mixer, the dark-velvet-noise convolver and the     *)
(* feedback delay network, each modelled from its C++ source, with one     *)
(* specification per component.                                            *)
(*                                                                         *)
(* Samples are integers.  Where the source multiplies by a fraction the    *)
(* model multiplies by the same fraction over integers scaled by a unit,   *)
(* so that the arithmetic of the checked cases is exact.                   *)
(***************************************************************************)
EXTENDS Integers, Sequences, FiniteSets, TLC

VARIABLES dl, dlStatus, dlHist, dlLast, dlKinds, dlRes,   \* delay-line harness
          rrs, rrsStatus, rrsX, rrsY,                    \* RRS-filter harness
          hadMode, hadFrame, hadBuf, hadIn, hadCalls, hadErr,  \* Hadamard harness
          dvn, dvnStatus, dvnReq, dvnIn, dvnOut, dvnCalls,   \* convolver harness
          fdn, fdnStatus, fdnIn, fdnOut, fdnRoom, fdnCalls, fdnFed,  \* network harness
          rev, revStatus, revCalls, revFed, revLast, revPre,  \* reverb harness
          fft, fftLock, audio, timer, fftSince,               \* analyser harness
          comb, combStatus, combFed, combIn, combOut, combOps, combErr, \* comb harness
          diffuser, diffStatus, diffRun                       \* diffuser harness

dlVars == <<dl, dlStatus, dlHist, dlLast, dlKinds, dlRes>>
rrsVars == <<rrs, rrsStatus, rrsX, rrsY>>
hadVars == <<hadMode, hadFrame, hadBuf, hadIn, hadCalls, hadErr>>
dvnVars == <<dvn, dvnStatus, dvnReq, dvnIn, dvnOut, dvnCalls>>
fdnVars == <<fdn, fdnStatus, fdnIn, fdnOut, fdnRoom, fdnCalls, fdnFed>>
revVars == <<rev, revStatus, revCalls, revFed, revLast, revPre>>
fftVars == <<fft, fftLock, audio, timer, fftSince>>
combVars == <<comb, combStatus, combFed, combIn, combOut, combOps, combErr>>
diffVars == <<diffuser, diffStatus, diffRun>>

vars == <<dlVars, rrsVars, hadVars, dvnVars, fdnVars, revVars, fftVars, combVars,
          diffVars>>

----------------------------------------------------------------------------
(* Bounds of the delay-line harness *)

MaxM == 2          \* largest maximum delay tried
MaxBlock == 2      \* largest maxBlockSize tried
MaxWrites == 4     \* total number of samples written in one run

\* the sample values written: two, so that a misplaced sample shows
Samples == {1, 2}

\* all sequences over S of length exactly n
SeqsOfLen(S, n) == [1..n -> S]

----------------------------------------------------------------------------
(* DelayLine (src/source/reverb/DelayLine.cpp) *)

\* DelayLine() = default: the members' in-class initialisers
DefaultDelayLine ==
    [M |-> 0, g |-> 0, bufferSize |-> 0, buffer |-> [i \in {} |-> 0], write |-> 0]

\* (mutant) the block-size check off by one
DelayLineCtorThrows_BlockZero(M, maxBlockSize) == M < 0 \/ maxBlockSize < 0

\* the argument check of the constructor
DelayLineCtorThrows(M, maxBlockSize) == M < 0 \/ maxBlockSize <= 0

\* DelayLine::DelayLine(M, g, maxBlockSize), after the argument check
NewDelayLine(M, g, maxBlockSize) ==
    LET bufferSize == M + maxBlockSize
    IN  [M |-> M, g |-> g, bufferSize |-> bufferSize,
         buffer |-> [i \in 0..(2 * bufferSize - 1) |-> 0], write |-> 0]

\* (mutant) the lower bound of tau is not checked
ReadSampleThrows_NoLower(d, tau) == tau > d.M

\* the argument check of readSample
ReadSampleThrows(d, tau) == tau > d.M \/ tau < 0

\* (mutant) the index is not moved back by one
ReadSampleIndex_NoMinusOne(d, tau) ==
    LET read == d.write - tau
    IN  IF read < 0 THEN read + d.bufferSize ELSE read

\* the index readSample reads
ReadSampleIndex(d, tau) ==
    LET read == d.write - tau - 1
    IN  IF read < 0 THEN read + d.bufferSize ELSE read

ReadSample(d, tau) == d.buffer[ReadSampleIndex(d, tau)]

\* DelayLine::writeSample
WriteSample(d, input) ==
    [d EXCEPT !.buffer = [d.buffer EXCEPT ![d.write] = input,
                                          ![d.write + d.bufferSize] = input],
              !.write = (d.write + 1) % d.bufferSize]

\* the argument checks of readBlock(tau, blockSize)
ReadBlockThrows(d, tau, blockSize) ==
    \/ tau < 0 \/ tau > d.M
    \/ blockSize <= 0 \/ blockSize > d.bufferSize - tau

\* the index of the first sample of the span readBlock returns
ReadBlockIndex(d, tau, blockSize) ==
    LET read == d.write - tau - blockSize
    IN  IF read < 0 THEN read + d.bufferSize ELSE read

\* the span readBlock returns a pointer to: blockSize consecutive cells
ReadBlock(d, tau, blockSize) ==
    LET read == ReadBlockIndex(d, tau, blockSize)
    IN  [i \in 1..blockSize |-> d.buffer[read + i - 1]]

\* std::memcpy(&buf[dst], src + off, len * sizeof(float)), the cells inside buf
Memcpy(buf, dst, src, off, len) ==
    [i \in DOMAIN buf |->
        IF i >= dst /\ i < dst + len THEN src[off + (i - dst) + 1] ELSE buf[i]]

\* writeBlock returns at once on a null pointer or a non-positive length
WriteBlockSkips(isNull, blockSize) == isNull \/ blockSize <= 0

\* a copy of the wrap-around branch runs past the end of the doubled buffer
WriteBlockOverflows(d, blockSize) ==
    /\ d.write + blockSize > d.bufferSize
    /\ blockSize - (d.bufferSize - d.write) > d.bufferSize

\* (mutant) the wrapped part is not copied into the mirror half
WriteBlock_NoMirrorWrap(d, input, blockSize) ==
    LET bs == d.bufferSize
        firstPart == bs - d.write
        secondPart == blockSize - firstPart
        plain == Memcpy(Memcpy(d.buffer, d.write, input, 0, blockSize),
                        d.write + bs, input, 0, blockSize)
        w1 == Memcpy(d.buffer, d.write, input, 0, firstPart)
        w2 == Memcpy(w1, 0, input, firstPart, secondPart)
        w3 == Memcpy(w2, d.write + bs, input, 0, firstPart)
    IN  [d EXCEPT !.buffer = IF d.write + blockSize <= bs THEN plain ELSE w3,
                  !.write = (d.write + blockSize) % bs]

\* DelayLine::writeBlock, for a non-null input of blockSize > 0 samples
WriteBlock(d, input, blockSize) ==
    LET bs == d.bufferSize
        firstPart == bs - d.write
        secondPart == blockSize - firstPart
        plain == Memcpy(Memcpy(d.buffer, d.write, input, 0, blockSize),
                        d.write + bs, input, 0, blockSize)
        w1 == Memcpy(d.buffer, d.write, input, 0, firstPart)
        w2 == Memcpy(w1, 0, input, firstPart, secondPart)
        w3 == Memcpy(w2, d.write + bs, input, 0, firstPart)
        w4 == Memcpy(w3, bs, input, firstPart, secondPart)
    IN  [d EXCEPT !.buffer = IF d.write + blockSize <= bs THEN plain ELSE w4,
                  !.write = (d.write + blockSize) % bs]

\* (mutant) processSample without the write into the mirror half
ProcessSample_NoMirror(d, input) ==
    LET z == input + d.g * ReadSample(d, d.M)
    IN  [d EXCEPT !.buffer = [d.buffer EXCEPT ![d.write] = z],
                  !.write = (d.write + 1) % d.bufferSize]

\* DelayLine::processSample(input): z = x + g * readSample(M) goes into the
\* cell at write and into its mirror
ProcessSample(d, input) ==
    LET z == input + d.g * ReadSample(d, d.M)
    IN  [d EXCEPT !.buffer = [d.buffer EXCEPT ![d.write] = z,
                                              ![d.write + d.bufferSize] = z],
                  !.write = (d.write + 1) % d.bufferSize]

\* DelayLine::processBlock(input, blockSize) for a non-null input of
\* blockSize > 0 samples: the line after writeBlock, whether
\* readBlock(M, blockSize) throws, and the block in place if it does not
ProcessBlock(d, input, blockSize) ==
    LET w == WriteBlock(d, input, blockSize)
        err == ReadBlockThrows(w, w.M, blockSize)
    IN  [d |-> w, err |-> err,
         block |-> IF err THEN input ELSE ReadBlock(w, w.M, blockSize)]

----------------------------------------------------------------------------
(* RRSFilter (src/Source/RRSFilter.cpp) *)

MaxOrder == 2        \* largest filter order M tried
MaxRRSSamples == 5   \* total number of samples one filter is fed
EpsDen == 3          \* epsilon ranges over k/EpsDen, 0 < k < EpsDen

RECURSIVE Pow(_, _)
Pow(b, e) == IF e <= 0 THEN 1 ELSE b * Pow(b, e - 1)

\* v * num / den, rounded toward zero where the quotient is not whole
MulFrac(v, num, den) ==
    IF v >= 0 THEN (v * num) \div den ELSE -(((-v) * num) \div den)

RECURSIVE MulPow(_, _, _, _)
\* v * (num/den)^k
MulPow(v, num, den, k) ==
    IF k <= 0 THEN v ELSE MulPow(MulFrac(v, num, den), num, den, k - 1)

\* RRSFilter() = default
DefaultRRSFilter ==
    [z_M |-> DefaultDelayLine, z_1 |-> DefaultDelayLine,
     epsNum |-> 0, epsDen |-> 1, M |-> 0]

\* the member initialisers z_M(M, 0.0f, maxBlockSize), z_1(1, 0.0f, maxBlockSize)
\* throw what DelayLine::DelayLine throws
RRSCtorThrows(M, maxBlockSize) ==
    DelayLineCtorThrows(M, maxBlockSize) \/ DelayLineCtorThrows(1, maxBlockSize)

\* RRSFilter::RRSFilter(M, epsilon_, maxBlockSize), epsilon_ = epsNum/epsDen;
\* epsilonM = (1 - epsilon)^M is kept as its base and exponent M
NewRRSFilter(M, epsNum, epsDen, maxBlockSize) ==
    [z_M |-> NewDelayLine(M, 0, maxBlockSize),
     z_1 |-> NewDelayLine(1, 0, maxBlockSize),
     epsNum |-> epsNum, epsDen |-> epsDen, M |-> M]

\* DelayLine::readSample(): the sample at the maximum delay
ReadSampleMax(d) == ReadSample(d, d.M)

\* one pass of the loop body of RRSFilter::process on input x:
\* the filter after it and the output y
RRSSample(f, x) ==
    LET x_M == ReadSampleMax(f.z_M)
        y_1 == ReadSampleMax(f.z_1)
        y == (x - MulPow(x_M, f.epsDen - f.epsNum, f.epsDen, f.M))
                + MulFrac(y_1, f.epsDen - f.epsNum, f.epsDen)
    IN  [f |-> [f EXCEPT !.z_M = WriteSample(f.z_M, x),
                         !.z_1 = WriteSample(f.z_1, y)],
         y |-> y]

RECURSIVE RRSProcessFrom(_, _, _, _)
\* the loop of RRSFilter::process from index i on; out is block[0..i-1] as filtered
RRSProcessFrom(f, block, i, out) ==
    IF i > Len(block) THEN [f |-> f, block |-> out]
    ELSE LET r == RRSSample(f, block[i])
         IN  RRSProcessFrom(r.f, block, i + 1, Append(out, r.y))

\* RRSFilter::process(block, blockSize): the filter after it and the block in place
RRSProcess(f, block) == RRSProcessFrom(f, block, 1, <<>>)

----------------------------------------------------------------------------
(* Hadamard (src/unnamed/part_004).                                         *)
(* The mixer scales by 1/sqrt(N), irrational for odd log2 N, so its samples *)
(* are numbers a + b*sqrt(2), kept as the record [a, b] of two integers.    *)

MaxLogN == 2         \* frames and buffers have up to 2^MaxLogN channels
MaxHadCalls == 2     \* calls of process on one frame or buffer
MaxBufSamples == 1   \* samples per channel of an audio buffer

SZero == [a |-> 0, b |-> 0]
SInt(n) == [a |-> n, b |-> 0]
SAdd(v, w) == [a |-> v.a + w.a, b |-> v.b + w.b]
SSub(v, w) == [a |-> v.a - w.a, b |-> v.b - w.b]
\* (a + b sqrt 2)^2 = (a^2 + 2 b^2) + (2ab) sqrt 2
SSquare(v) == [a |-> v.a * v.a + 2 * v.b * v.b, b |-> 2 * v.a * v.b]
\* (a + b sqrt 2) / sqrt 2 = b + (a/2) sqrt 2
SInvSqrt2(v) == [a |-> v.b, b |-> MulFrac(v.a, 1, 2)]

RECURSIVE BitAnd(_, _)
\* x & y, for x, y >= 0
BitAnd(x, y) ==
    IF x = 0 \/ y = 0 THEN 0
    ELSE (x % 2) * (y % 2) + 2 * BitAnd(x \div 2, y \div 2)

\* the test (N & (N - 1)) != 0; for N = 0 the left operand is 0
NotPowerOfTwo(N) == N # 0 /\ BitAnd(N, N - 1) # 0

RECURSIVE Log2(_)
Log2(N) == IF N <= 1 THEN 0 ELSE 1 + Log2(N \div 2)

RECURSIVE SInvSqrt2Times(_, _)
SInvSqrt2Times(v, k) == IF k <= 0 THEN v ELSE SInvSqrt2Times(SInvSqrt2(v), k - 1)

\* (mutant) the frame is scaled by 1/N
HadamardScale_OneOverN(v, N) == SInvSqrt2Times(v, 2 * Log2(N))

\* val *= 1.0f / std::sqrt(N), N a power of two: log2 N factors 1/sqrt 2
HadamardScale(v, N) == SInvSqrt2Times(v, Log2(N))

\* (mutant) the lower half of a pair gets the sum as well
HadamardStage_NoDifference(t, len) ==
    [idx \in 1..Len(t) |->
        IF ((idx - 1) \div len) % 2 = 0
        THEN SAdd(t[idx], t[idx + len])
        ELSE SAdd(t[idx - len], t[idx])]

\* one pass of the outer loop: every pair (i+j, i+j+len) becomes (a+b, a-b)
HadamardStage(t, len) ==
    [idx \in 1..Len(t) |->
        IF ((idx - 1) \div len) % 2 = 0
        THEN SAdd(t[idx], t[idx + len])
        ELSE SSub(t[idx - len], t[idx])]

RECURSIVE HadamardButterfly(_, _)
\* for (len = 1; len < N; len <<= 1)
HadamardButterfly(t, len) ==
    IF len >= Len(t) THEN t ELSE HadamardButterfly(HadamardStage(t, len), 2 * len)

\* the transform of one frame whose size passed the power-of-two test
HadamardFrame(frame) ==
    LET t == HadamardButterfly(frame, 1)
    IN  [i \in 1..Len(frame) |-> HadamardScale(t[i], Len(frame))]

\* Hadamard::process(std::vector<float>&): returns at once unless N is a power of two
HadamardVector(frame) ==
    IF NotPowerOfTwo(Len(frame)) THEN frame ELSE HadamardFrame(frame)

\* Hadamard::process(juce::AudioBuffer<float>&) throws unless numChannels is a power of two
HadamardBufferThrows(buf) == NotPowerOfTwo(buf.numChannels)

\* the frame of buffer buf at one sample index
BufferFrame(buf, sample) == [ch \in 1..buf.numChannels |-> buf.data[ch][sample]]

\* Hadamard::process(juce::AudioBuffer<float>&): each sample frame transformed in place
HadamardBuffer(buf) ==
    [buf EXCEPT !.data =
        [ch \in 1..buf.numChannels |->
            [sample \in 1..buf.numSamples |->
                HadamardFrame(BufferFrame(buf, sample))[ch]]]]

----------------------------------------------------------------------------
(* DVNConvolver (src/unnamed/part_003).                                     *)
(* Samples are whole multiples of 1/DVNOne; a product with (1 - epsilon) is *)
(* rounded toward zero, which is exact on the all-zero blocks of a          *)
(* convolver with no pulses.  A random draw r in [0, 1) is j/RDen.          *)

MaxPulses == 1       \* largest number of pulses M tried
RDen == 2            \* random draws range over j/RDen, 0 <= j < RDen
MaxDVNBlock == 2     \* largest maxBlockSize of a convolver
MaxDVNCalls == 1     \* calls of process on one convolver

\* the sample rates fs and pulse densities p tried: Td = 2, 3, 1, 1
DVNRates == {2, 3}
DVNDensities == {1, 2}

\* epsilon of every filter of the bank is 1/4096
DVNEpsDen == 4096

\* the values a read of the int at k.end() of an empty vector may produce
GarbageInts == {-1, 0, 1}

\* std::round of num/den >= 0, halves away from zero
Round(num, den) == (2 * num + den) \div (2 * den)

\* w[m] = round(r1 * (wmax - wmin) + wmin), r1 = j1/RDen
PulseWidth(wmin, wmax, j1) == Round(j1 * (wmax - wmin) + wmin * RDen, RDen)

\* k[m] = round(m * Td + r2 * (Td - w[m])), r2 = j2/RDen, m counted from 0
PulsePosition(m, Td, w, j2) == Round(m * Td * RDen + j2 * (Td - w), RDen)

\* s[m] = 2 * round(r3) - 1, r3 = j3/RDen
PulseSign(j3) == 2 * Round(j3, RDen) - 1

RECURSIVE MaxElement(_)
\* *std::max_element(k.begin(), k.end()) of a vector that is not empty
MaxElement(k) ==
    IF Len(k) = 1 THEN k[1]
    ELSE LET half == Len(k) \div 2
             l == MaxElement(SubSeq(k, 1, half))
             r == MaxElement(SubSeq(k, half + 1, Len(k)))
         IN  IF l >= r THEN l ELSE r

\* (mutant) a pulse goes into every bucket up to its own
BucketPulses_UpToOwn(w, wmin, bucket) ==
    SelectSeq([m \in 1..Len(w) |-> m], LAMBDA m : w[m] - wmin >= bucket)

\* the pulses of a bucket: every m with w[m] - wmin = bucket, in increasing order
BucketPulses(w, wmin, bucket) ==
    SelectSeq([m \in 1..Len(w) |-> m], LAMBDA m : w[m] - wmin = bucket)

\* DVNConvolver::DVNConvolver(N, M, p, maxBlockSize, fs) with the draws
\* draws[m] = <<j1, j2, j3>>; zM is the length given to the shared delay line
NewDVNConvolver(M, p, maxBlockSize, fs, draws, zM) ==
    LET Td == fs \div p
        wmin == Td \div 2
        wmax == Td
        w == [m \in 1..M |-> PulseWidth(wmin, wmax, draws[m][1])]
        k == [m \in 1..M |-> PulsePosition(m - 1, Td, w[m], draws[m][2])]
        s == [m \in 1..M |-> PulseSign(draws[m][3])]
    IN  [M |-> M, p |-> p, Td |-> Td, wmin |-> wmin, wmax |-> wmax,
         k |-> k, w |-> w, s |-> s,
         z |-> NewDelayLine(zM, 0, maxBlockSize),
         RRS |-> [b \in 1..(wmax - wmin + 1) |->
                    [first |-> NewRRSFilter(wmin + b - 1, 1, DVNEpsDen, maxBlockSize),
                     second |-> BucketPulses(w, wmin, b - 1)]],
         sum1 |-> [i \in 1..maxBlockSize |-> 0],
         sum2 |-> [i \in 1..maxBlockSize |-> 0]]

\* the positions k of the pulses the constructor draws
PulsePositions(M, p, fs, draws) == NewDVNConvolver(M, p, 1, fs, draws, 0).k

\* a convolver on which no constructor has run
DefaultDVNConvolver ==
    [M |-> 0, p |-> 0, Td |-> 0, wmin |-> 0, wmax |-> 0,
     k |-> <<>>, w |-> <<>>, s |-> <<>>, z |-> DefaultDelayLine,
     RRS |-> <<>>, sum1 |-> <<>>, sum2 |-> <<>>]

\* FloatVectorOperations::addWithMultiply(dest, src, multiplier, num)
AddWithMultiply(dest, src, multiplier) ==
    [i \in 1..Len(dest) |-> dest[i] + src[i] * multiplier]

RECURSIVE BucketSum(_, _, _, _)
\* sum1 after the pulses of one bucket from index i on have been added
BucketSum(c, z, pulses, sum1) ==
    IF pulses = <<>> THEN sum1
    ELSE LET m == Head(pulses)
         IN  BucketSum(c, z, Tail(pulses),
                       AddWithMultiply(sum1, ReadBlock(z, c.k[m], Len(sum1)), c.s[m]))

RECURSIVE DVNBuckets(_, _, _, _, _, _)
\* the loop over the buckets from bucket b on: the bank after it, and the first
\* blockSize cells of sum1 and sum2
DVNBuckets(c, z, RRS, b, sum1, sum2) ==
    IF b > Len(RRS) THEN [RRS |-> RRS, sum1 |-> sum1, sum2 |-> sum2]
    ELSE LET cleared == [i \in 1..Len(sum2) |-> 0]
             summed == BucketSum(c, z, RRS[b].second, cleared)
             r == RRSProcess(RRS[b].first, summed)
         IN  DVNBuckets(c, z, [RRS EXCEPT ![b].first = r.f], b + 1, r.block,
                        [i \in 1..Len(sum2) |-> sum2[i] + r.block[i]])

\* the vector v with its first cells replaced by the cells of head
Overlay(v, head) == [i \in 1..Len(v) |-> IF i <= Len(head) THEN head[i] ELSE v[i]]

\* the product of sample v with 1.0f / std::pow(float(norm), 19.0f / 30.0f):
\* v / norm^(19/30) is kept as the pair (v, norm); for norm = 0 the factor is
\* +infinity, and 0 * infinity is not a number
DVNNormalise(v, norm) ==
    IF norm # 0 THEN [kind |-> "num", num |-> v, norm |-> norm]
    ELSE IF v = 0 THEN [kind |-> "nan", num |-> 0, norm |-> 0]
    ELSE [kind |-> "inf", num |-> IF v > 0 THEN 1 ELSE -1, norm |-> 0]

\* the cells of sum2 that FloatVectorOperations::clear(sum2.data(), blockSize)
\* writes, counted from 0
ScratchCellsCleared(blockSize) == 0..(blockSize - 1)

\* process(block, blockSize) with blockSize > maxBlockSize up to the clearing
\* of sum2, which runs past the end of the vector: the block has been
\* written into the delay line
DVNProcessOversize(c, block) == [c EXCEPT !.z = WriteBlock(c.z, block, Len(block))]

\* DVNConvolver::process(block, blockSize), 0 < blockSize <= maxBlockSize:
\* the convolver after it and the block in place
DVNProcess(c, block) ==
    LET n == Len(block)
        z == WriteBlock(c.z, block, n)
        r == DVNBuckets(c, z, c.RRS, 1, [i \in 1..n |-> c.sum1[i]],
                        [i \in 1..n |-> 0])
        norm == c.M * (c.wmax - c.wmin + 1)
    IN  [c |-> [c EXCEPT !.z = z, !.RRS = r.RRS,
                         !.sum1 = Overlay(c.sum1, r.sum1),
                         !.sum2 = Overlay(c.sum2, r.sum2)],
         block |-> [i \in 1..n |-> DVNNormalise(r.sum2[i], norm)]]

----------------------------------------------------------------------------
(* FDN (src/Source/FDN.cpp).                                                *)
(* A sample of the network is dry + fb: dry is the exactly known part, a    *)
(* whole multiple of 1/FDNOne, and fb says that a fed-back term             *)
(* g * H(mixed), whose value the damping filter of the JUCE library         *)
(* decides, has been added to it.  A gain is "zero" or "drawn" (a value of  *)
(* [0.8, 0.9)); a damping filter is its coefficients and whether a nonzero  *)
(* sample has ever entered it.                                              *)

\* the line counts N tried: negative, zero, powers of two and one that is not
FDNLineCounts == {-1, 0, 1, 2, 3}
MaxBase == 1         \* largest base delay length m tried
MaxFDNSamples == 2   \* total number of samples one network is fed

\* the roomSize values tried, as <<numerator, denominator>>: the ends of
\* [0.1, 2.0] and two values that leave a fraction of a sample, a half and
\* more than a half
RoomSizes == {<<1, 10>>, <<1, 2>>, <<3, 4>>, <<2, 1>>}

\* the sample rate and the dampening cutoff a call passes
FDNRates == {48000}
FDNDampenings == {12000}

\* the gain values: the constructor draws every gain from [0.8, 0.9) ("drawn");
\* "zero" is the setting of the member g that the zero-gain property speaks
\* of, and then every gain is zero
FDNGains == {"zero", "drawn"}

FZero == [dry |-> 0, fb |-> FALSE]
FDry(x) == [dry |-> x, fb |-> FALSE]

\* a delay line of the network: DelayLine(M, 0.0f, blockSize) over its samples
NewFDNLine(M, blockSize) ==
    LET d == NewDelayLine(M, 0, blockSize)
    IN  [d EXCEPT !.buffer = [i \in DOMAIN d.buffer |-> FZero]]

\* the lengths round(m * jitter) can take, jitter drawn from [1, 2)
JitterLengths(m) == m..(2 * m)

\* makeLowPass(sampleRate, frequency) on a filter that has processed nothing;
\* made counts the coefficient sets computed for the filter
NewDampingFilter(sampleRate, frequency) ==
    [coefficients |-> <<sampleRate, frequency>>, fed |-> FALSE, made |-> 1]

\* what makes the constructor throw: DelayLine(0, 0.0f, blockSize) on a block
\* size that is not positive, and M.resize(N) on a negative N, which
\* converts to a size beyond max_size()
FDNCtorThrows(N, blockSize) == DelayLineCtorThrows(0, blockSize) \/ N < 0

\* FDN::FDN(N, m, blockSize), N >= 0, with the drawn lengths lengths[2..N]
\* and gains; M[0] stays 0 and line 0 is the dummy line of length 0, which
\* is built whatever N is
NewFDN(N, lengths, gains, blockSize) ==
    LET M == [i \in 1..N |-> IF i = 1 THEN 0 ELSE lengths[i]]
    IN  [N |-> N, M |-> M, g |-> gains,
         z |-> [i \in 1..(IF N >= 1 THEN N ELSE 1) |->
                   NewFDNLine(IF i = 1 THEN 0 ELSE 2 * M[i], blockSize)],
         H |-> [i \in 1..N |-> NewDampingFilter(44100, 8000)]]

\* an FDN on which no constructor has run
DefaultFDN == [N |-> 0, M |-> <<>>, g |-> <<>>, z |-> <<>>, H |-> <<>>]

\* static_cast<int>(M[ch] * roomSize)
DelayIndex(M, roomSize) == (M * roomSize[1]) \div roomSize[2]

\* Hadamard::process(outputFrame): whether entry ch of the mixed frame is
\* known to be zero
MixedIsZero(outputFrame, ch) ==
    /\ \A i \in 1..Len(outputFrame) : ~outputFrame[i].fb
    /\ HadamardVector([i \in 1..Len(outputFrame) |-> SInt(outputFrame[i].dry)])[ch]
          = SZero

\* (mutant) the input sample is not added to the fed-back term
FDNFeedback_NoInput(input, g, mixedZero, fed) ==
    [dry |-> 0, fb |-> g # "zero" /\ ~(mixedZero /\ ~fed)]

\* inputFrame[ch] + g[ch] * H[ch].processSample(outputFrame[ch]): the filter
\* of a line gives zero for a zero sample while nothing nonzero has entered it
FDNFeedback(input, g, mixedZero, fed) ==
    [dry |-> input, fb |-> g # "zero" /\ ~(mixedZero /\ ~fed)]

\* (mutant) the input is taken from the buffer after the delayed outputs
\* have overwritten it
FDNSample_InputAfterOutput(f, inputFrame, roomSize) ==
    LET outputFrame == [ch \in 1..Len(f.z) |->
                           ReadSample(f.z[ch], DelayIndex(f.M[ch], roomSize))]
        written == [ch \in 1..Len(f.z) |->
                       FDNFeedback(outputFrame[ch].dry, f.g[ch],
                                   MixedIsZero(outputFrame, ch), f.H[ch].fed)]
    IN  [f |-> [f EXCEPT
                  !.H = [ch \in 1..Len(f.z) |->
                            [f.H[ch] EXCEPT
                               !.fed = @ \/ ~MixedIsZero(outputFrame, ch)]],
                  !.z = [ch \in 1..Len(f.z) |-> WriteSample(f.z[ch], written[ch])]],
         out |-> outputFrame]

\* one pass of the sample loop of FDN::process: the network after it and the
\* frame written to the output buffer
FDNSample(f, inputFrame, roomSize) ==
    LET outputFrame == [ch \in 1..Len(f.z) |->
                           ReadSample(f.z[ch], DelayIndex(f.M[ch], roomSize))]
        written == [ch \in 1..Len(f.z) |->
                       FDNFeedback(inputFrame[ch], f.g[ch],
                                   MixedIsZero(outputFrame, ch), f.H[ch].fed)]
    IN  [f |-> [f EXCEPT
                  !.H = [ch \in 1..Len(f.z) |->
                            [f.H[ch] EXCEPT
                               !.fed = @ \/ ~MixedIsZero(outputFrame, ch)]],
                  !.z = [ch \in 1..Len(f.z) |-> WriteSample(f.z[ch], written[ch])]],
         out |-> outputFrame]

RECURSIVE FDNProcessFrom(_, _, _, _, _)
\* the sample loop of FDN::process from sample index i on; out[ch] is the
\* output of channel ch so far
FDNProcessFrom(f, data, roomSize, i, out) ==
    IF i > Len(data[1]) THEN [f |-> f, data |-> out]
    ELSE LET r == FDNSample(f, [ch \in 1..Len(f.z) |-> data[ch][i]], roomSize)
         IN  FDNProcessFrom(r.f, data, roomSize, i + 1,
                            [ch \in 1..Len(f.z) |-> Append(out[ch], r.out[ch])])

\* process indexes M, g and H by the line index ch < z.size(); with N = 0
\* the one dummy line has no entry in any of them
FDNProcessOutOfBounds(f) == Len(f.H) < Len(f.z)

\* FDN::process(buffer, dampening, fs, roomSize) on a buffer of z.size()
\* channels, every index in bounds: the network after it and the samples of
\* the buffer in place
FDNProcess(f, data, dampening, fs, roomSize) ==
    LET g == [f EXCEPT !.H = [ch \in 1..Len(f.z) |->
                                 [f.H[ch] EXCEPT !.coefficients = <<fs, dampening>>,
                                                 !.made = @ + 1]]]
    IN  FDNProcessFrom(g, data, roomSize, 1, [ch \in 1..Len(f.z) |-> <<>>])

----------------------------------------------------------------------------
(* Reverb (src/Source/Reverb.cpp).                                          *)
(* A sample of the reverb is a term [k, v]: a number, or the output of a    *)
(* stage whose arithmetic is not repeated here (a JUCE tone filter, a       *)
(* diffuser, a network, the mid/side and the dry/wet sums) applied to the   *)
(* term it was given.  A stage with memory is told apart by the number of   *)
(* samples it has processed before.  The pre-delay lines are DelayLines     *)
(* over terms; a diffuser and a network are kept as the lengths and read    *)
(* positions of their delay lines, which decide every index check.          *)

MaxRevBlock == 2     \* largest block size a reverb is set up with
MaxRevSamples == 2   \* total number of samples one reverb is fed

\* the sample rates tried: a pulse segment of the diffusers is 2 samples
\* long at 4000 Hz and 4 at 8000 Hz, the longest pre-delay 400 and 800
ReverbRates == {4000, 8000}

\* a rational control value <<numerator, denominator>> times an integer,
\* cast to int
ScaleToInt(q, x) == (q[1] * x) \div q[2]

\* static_cast<int>(0.1f * fs)
TenthOf(fs) == ScaleToInt(<<1, 10>>, fs)

\* the payload v of a term is a record whatever the kind, so that any two
\* terms can be compared
RNum(x) == [k |-> "num", v |-> [x |-> x]]
RZero == RNum(0)

\* what a read through the null channel pointer of an AudioBuffer gives when
\* it does not end the process
RGarbage == [k |-> "garbage", v |-> [x |-> 0]]

\* the output of a stage with memory for the input term x
RStage(name, age, x) == [k |-> name, v |-> [n |-> age, x |-> x]]

\* the output of a tone filter with the given coefficients
RFiltered(name, coefficients, age, x) ==
    [k |-> name, v |-> [c |-> coefficients, n |-> age, x |-> x]]

\* mid + side and mid - side of the stereo-width stage (sign = 1, -1)
RMidSide(sign, stereoWidth, left, right) ==
    [k |-> "midSide",
     v |-> [s |-> sign, w |-> stereoWidth, l |-> left, r |-> right]]

\* (mutant) the dry/wet sum with the weights exchanged
RMix_Exchanged(mix, wet, dry) ==
    IF mix[1] = 0 THEN wet
    ELSE IF mix[1] = mix[2] THEN dry
    ELSE [k |-> "mix", v |-> [m |-> mix, w |-> dry, d |-> wet]]

\* mix * wet + (1.0f - mix) * dry on finite samples: a weight of 0 leaves the
\* other sample as it is
RMix(mix, wet, dry) ==
    IF mix[1] = 0 THEN dry
    ELSE IF mix[1] = mix[2] THEN wet
    ELSE [k |-> "mix", v |-> [m |-> mix, w |-> wet, d |-> dry]]

\* DelayLine(static_cast<int>(0.1f * fs), 1.0f, blockSize) over terms
NewPreDelayLine(fs, blockSize) ==
    LET d == NewDelayLine(TenthOf(fs), 1, blockSize)
    IN  [d EXCEPT !.buffer = [i \in DOMAIN d.buffer |-> RZero]]

\* a juce::IIRFilter after reset() and setCoefficients
NewToneFilter(sampleRate, frequency) ==
    [coefficients |-> <<sampleRate, frequency>>, age |-> 0]

\* juce::IIRFilter::processSamples(samples, numSamples): the filter after it
\* and the samples in place
ToneFilterSamples(name, filter, samples) ==
    [filter |-> [filter EXCEPT !.age = @ + Len(samples)],
     samples |-> [i \in 1..Len(samples) |->
                    RFiltered(name, filter.coefficients, filter.age + i - 1,
                              samples[i])]]

\* the maximum delay and size of a delay line
LineShape(d) == [M |-> d.M, bufferSize |-> d.bufferSize]

\* a DVNConvolver as the shape of its shared delay line and the smallest and
\* the largest of its pulse positions: every check of readBlock is monotone
\* in tau, so these two decide for all
ConvolverShape(c) ==
    [z |-> LineShape(c.z),
     k |-> {MaxElement(c.k), -MaxElement([m \in 1..Len(c.k) |-> -c.k[m]])}]

\* Diffuser::Diffuser throws for N < 1, and what DVNConvolver's constructor
\* throws
DiffuserCtorThrows(N, blockSize) == N < 1 \/ DelayLineCtorThrows(0, blockSize)

\* Diffuser::Diffuser(N, M, p, blockSize, fs), M >= 1: one DVNConvolver per
\* channel, each with the draws draws[channel]
NewDiffuser(N, M, p, blockSize, fs, draws) ==
    [N |-> N,
     dvnConvolvers |->
        [channel \in 1..N |->
            ConvolverShape(
                NewDVNConvolver(M, p, blockSize, fs, draws[channel],
                    MaxElement(PulsePositions(M, p, fs, draws[channel]))))],
     fed |-> 0]

\* the reads z->readBlock(k[m], blockSize) of Diffuser::process
DiffuserReads(d, blockSize) ==
    UNION {{[z |-> d.dvnConvolvers[channel].z, tau |-> tau,
                blockSize |-> blockSize, block |-> TRUE] :
               tau \in d.dvnConvolvers[channel].k} : channel \in 1..d.N}

\* an FDN as the lengths M and the shapes of its delay lines
FDNShape(f) ==
    [N |-> f.N, M |-> f.M, z |-> [i \in 1..Len(f.z) |-> LineShape(f.z[i])],
     coefficients |-> f.H[1].coefficients, fed |-> 0]

\* the reads z[ch]->readSample(static_cast<int>(M[ch] * roomSize)) of
\* FDN::process on a block that is not empty
FDNReads(f, roomSize) ==
    {[z |-> f.z[ch], tau |-> DelayIndex(f.M[ch], roomSize),
      blockSize |-> 1, block |-> FALSE] : ch \in 1..Len(f.z)}

\* a read that throws: readBlock for a diffuser, readSample otherwise
ReadThrows(rd) ==
    IF rd.block THEN ReadBlockThrows(rd.z, rd.tau, rd.blockSize)
    ELSE ReadSampleThrows(rd.z, rd.tau)

\* whether one of a set of reads throws
AnyReadThrows(reads) == \E rd \in reads : ReadThrows(rd)

\* Reverb() = default
DefaultReverb ==
    [fs |-> 0, blockSize |-> 0, z |-> <<>>,
     d1 |-> [N |-> 0, dvnConvolvers |-> <<>>, fed |-> 0],
     d2 |-> [N |-> 0, dvnConvolvers |-> <<>>, fed |-> 0],
     d3 |-> [N |-> 0, dvnConvolvers |-> <<>>, fed |-> 0],
     fdn1 |-> [N |-> 0, M |-> <<>>, z |-> <<>>, coefficients |-> <<0, 0>>, fed |-> 0],
     fdn2 |-> [N |-> 0, M |-> <<>>, z |-> <<>>, coefficients |-> <<0, 0>>, fed |-> 0],
     lowPassFilters |-> <<>>, highPassFilters |-> <<>>,
     previousLowPass |-> 0, previousHighPass |-> 0]

\* the first member initialiser throws what the others would
ReverbCtorThrows(blockSize) == DiffuserCtorThrows(8, blockSize)

\* Reverb::Reverb(fs, blockSize): draws[d][channel] are the draws of the
\* convolvers of diffuser d, lengths[f] the drawn line lengths of network f
NewReverb(fs, blockSize, draws, lengths) ==
    [fs |-> fs, blockSize |-> blockSize,
     z |-> [ch \in 1..2 |-> NewPreDelayLine(fs, blockSize)],
     d1 |-> NewDiffuser(8, 200, 2000, blockSize, fs, draws[1]),
     d2 |-> NewDiffuser(8, 200, 2000, blockSize, fs, draws[2]),
     d3 |-> NewDiffuser(8, 200, 2000, blockSize, fs, draws[3]),
     fdn1 |-> FDNShape(NewFDN(8, lengths[1], [i \in 1..8 |-> "drawn"], blockSize)),
     fdn2 |-> FDNShape(NewFDN(8, lengths[2], [i \in 1..8 |-> "drawn"], blockSize)),
     lowPassFilters |-> [ch \in 1..2 |-> NewToneFilter(fs, 20000)],
     highPassFilters |-> [ch \in 1..2 |-> NewToneFilter(fs, 20)],
     previousLowPass |-> 20000, previousHighPass |-> 20]

\* (mutant) only z.resize(numChannels): the lines that stay keep what they hold
ResizedLines_ResizeOnly(r, numChannels) ==
    [ch \in 1..numChannels |->
        IF ch <= Len(r.z) THEN r.z[ch] ELSE NewPreDelayLine(r.fs, r.blockSize)]

\* the pre-delay lines after the channel-count test of process
ResizedLines(r, numChannels) ==
    IF Len(r.z) # numChannels
    THEN [ch \in 1..numChannels |-> NewPreDelayLine(r.fs, r.blockSize)]
    ELSE r.z

\* (mutant) the coefficients are computed in every call
CutoffChanged_Always(cutoff, previous) == TRUE

\* lowPass != previousLowPass, highPass != previousHighPass
CutoffChanged(cutoff, previous) == cutoff # previous

\* the tone filters after the cutoff test of process: setCoefficients on the
\* filters of the channels of the buffer when the cutoff differs from the
\* last one applied
UpdatedFilters(filters, fs, cutoff, previous, numChannels) ==
    IF CutoffChanged(cutoff, previous)
    THEN [ch \in 1..Len(filters) |->
             IF ch <= numChannels
             THEN [filters[ch] EXCEPT !.coefficients = <<fs, cutoff>>]
             ELSE filters[ch]]
    ELSE filters

RECURSIVE PreDelayFrom(_, _, _, _, _)
\* the loop of the pre-delay stage over one channel from sample i on: the
\* line after it and the samples in place
PreDelayFrom(line, samples, tau, i, out) ==
    IF i > Len(samples) THEN [line |-> line, samples |-> out]
    ELSE PreDelayFrom(WriteSample(line, samples[i]), samples, tau, i + 1,
                      Append(out, ReadSample(line, tau)))

\* the pre-delay stage over one channel
PreDelay(line, samples, tau) == PreDelayFrom(line, samples, tau, 1, <<>>)

\* buffer.setSize(8, numSamples, true, ...) and the copies of the last
\* channel into the new channels
Upscale(data) ==
    [ch \in 1..8 |-> IF ch <= Len(data) THEN data[ch] ELSE data[Len(data)]]

RECURSIVE RChain_Reversed(_, _, _)
\* (mutant) the stages run in the opposite order
RChain_Reversed(stages, i, x) ==
    IF Len(stages) = 0 THEN x
    ELSE LET first == stages[1]
         IN  RStage(first.name, first.fed + i - 1,
                    RChain_Reversed(SubSeq(stages, 2, Len(stages)), i, x))

RECURSIVE RChain(_, _, _)
\* what the stages with memory stages[1], stages[2], ..., run one after the
\* other, make of the term x at sample i of a block
RChain(stages, i, x) ==
    IF Len(stages) = 0 THEN x
    ELSE LET last == stages[Len(stages)]
         IN  RStage(last.name, last.fed + i - 1,
                    RChain(SubSeq(stages, 1, Len(stages) - 1), i, x))

\* the diffuser and network stages run so far, on every channel of the buffer
StageSamples(stages, data) ==
    [ch \in 1..Len(data) |->
        [i \in 1..Len(data[ch]) |-> RChain(stages, i, data[ch][i])]]

\* the stereo-width stage on channels 0 and 1
StereoWidth(data, stereoWidth) ==
    [ch \in 1..Len(data) |->
        IF ch > 2 THEN data[ch]
        ELSE [i \in 1..Len(data[ch]) |->
                 RMidSide(IF ch = 1 THEN 1 ELSE -1, stereoWidth,
                          data[1][i], data[2][i])]]

\* the dry/wet stage: channels 0 and 1 only, whatever the channel count of
\* the dry snapshot; dry.getReadPointer(ch) of a channel the snapshot does
\* not have is the null pointer that ends the channel list
MixDryWet(wet, dry, mix) ==
    [ch \in 1..Len(wet) |->
        IF ch > 2 THEN wet[ch]
        ELSE [i \in 1..Len(wet[ch]) |->
                 RMix(mix, wet[ch][i],
                      IF ch <= Len(dry) THEN dry[ch][i] ELSE RGarbage)]]

\* the channel indices the dry/wet stage reads of the dry snapshot
DryChannelsRead(numSamples) == IF numSamples >= 1 THEN {0, 1} ELSE {}

\* the reads z[ch].readSample(static_cast<int>(initialDelay * fs)) of the
\* pre-delay stage
PreDelayReads(z, tau, numSamples) ==
    IF numSamples <= 0 THEN {}
    ELSE {[z |-> LineShape(z[ch]), tau |-> tau, blockSize |-> 1, block |-> FALSE] :
             ch \in 1..Len(z)}

\* Reverb::process(buffer, mix, stereoWidth, lowPass, highPass, dampening,
\* roomSize, initialDelay) on a buffer of at most two channels, c the record
\* of the control values: the reverb after it, the samples of the buffer in
\* place, the stage that threw (err), and what the stages saw on the way: the
\* dry snapshot, the input and output of the pre-delay stage, the buffer
\* before the dry/wet stage, the reads made of delay lines, and (acc) the
\* coefficient sets computed, the filters and their coefficients as they
\* filtered each channel, and the indices used of the filters, the
\* pre-delay lines and the channels of the dry snapshot
ReverbProcess(r, data, c) ==
    LET numChannels == Len(data)
        numSamples == Len(data[1])
        z0 == ResizedLines(r, numChannels)
        lp0 == UpdatedFilters(r.lowPassFilters, r.fs, c.lowPass,
                              r.previousLowPass, numChannels)
        hp0 == UpdatedFilters(r.highPassFilters, r.fs, c.highPass,
                              r.previousHighPass, numChannels)
        dry == data
        hp == [ch \in 1..numChannels |->
                  ToneFilterSamples("highPass", hp0[ch], data[ch])]
        lp == [ch \in 1..numChannels |->
                  ToneFilterSamples("lowPass", lp0[ch], hp[ch].samples)]
        filtered == [ch \in 1..numChannels |-> lp[ch].samples]
        acc == [channels |-> numChannels,
                madeLowPass |-> CutoffChanged(c.lowPass, r.previousLowPass),
                madeHighPass |-> CutoffChanged(c.highPass, r.previousHighPass),
                lowPassUsed |-> [ch \in 1..numChannels |-> lp0[ch].coefficients],
                highPassUsed |-> [ch \in 1..numChannels |-> hp0[ch].coefficients],
                filters |-> 0..(numChannels - 1),
                numFilters |-> Len(r.lowPassFilters),
                lines |-> IF numSamples >= 1 THEN 0..(numChannels - 1) ELSE {},
                numLines |-> Len(z0),
                rebuilt |-> Len(r.z) # numChannels]
        r0 == [r EXCEPT !.z = z0,
                        !.lowPassFilters =
                            [ch \in 1..Len(lp0) |->
                                IF ch <= numChannels THEN lp[ch].filter ELSE lp0[ch]],
                        !.highPassFilters =
                            [ch \in 1..Len(hp0) |->
                                IF ch <= numChannels THEN hp[ch].filter ELSE hp0[ch]],
                        !.previousLowPass =
                            IF CutoffChanged(c.lowPass, r.previousLowPass)
                            THEN c.lowPass ELSE r.previousLowPass,
                        !.previousHighPass =
                            IF CutoffChanged(c.highPass, r.previousHighPass)
                            THEN c.highPass ELSE r.previousHighPass]
        tau == ScaleToInt(c.initialDelay, r.fs)
        zReads == PreDelayReads(z0, tau, numSamples)
        pre == [ch \in 1..numChannels |-> PreDelay(z0[ch], filtered[ch], tau)]
        preOut == [ch \in 1..numChannels |-> pre[ch].samples]
        r1 == [r0 EXCEPT !.z = [ch \in 1..numChannels |-> pre[ch].line]]
        stages == <<[name |-> "d1", fed |-> r.d1.fed],
                    [name |-> "fdn1", fed |-> r.fdn1.fed],
                    [name |-> "d2", fed |-> r.d2.fed],
                    [name |-> "fdn2", fed |-> r.fdn2.fed],
                    [name |-> "d3", fed |-> r.d3.fed]>>
        After(count) == StageSamples(SubSeq(stages, 1, count), Upscale(preOut))
        d1Reads == DiffuserReads(r.d1, numSamples)
        r2 == [r1 EXCEPT !.d1.fed = @ + numSamples]
        f1Reads == IF numSamples <= 0 THEN {} ELSE FDNReads(r.fdn1, c.roomSize)
        r3 == [r2 EXCEPT !.fdn1.fed = @ + numSamples,
                         !.fdn1.coefficients = <<r.fs, c.dampening>>]
        d2Reads == DiffuserReads(r.d2, numSamples)
        r4 == [r3 EXCEPT !.d2.fed = @ + numSamples]
        f2Reads == IF numSamples <= 0 THEN {} ELSE FDNReads(r.fdn2, c.roomSize)
        r5 == [r4 EXCEPT !.fdn2.fed = @ + numSamples,
                         !.fdn2.coefficients = <<r.fs, c.dampening>>]
        d3Reads == DiffuserReads(r.d3, numSamples)
        r6 == [r5 EXCEPT !.d3.fed = @ + numSamples]
        wet == IF numChannels = 2 THEN StereoWidth(After(5), c.stereoWidth)
               ELSE After(5)
        Thrown(stage, rr, buf, reads, pOut) ==
            [r |-> rr, data |-> buf, err |-> stage, reads |-> reads,
             dry |-> dry, preIn |-> filtered, preOut |-> pOut, wet |-> <<>>,
             acc |-> acc, dryRead |-> {}]
    IN  IF AnyReadThrows(zReads)
        THEN Thrown("z", r0, filtered, zReads, <<>>)
        ELSE IF AnyReadThrows(d1Reads)
        THEN Thrown("d1", r1, After(0), zReads \cup d1Reads, preOut)
        ELSE IF AnyReadThrows(f1Reads)
        THEN Thrown("fdn1", [r2 EXCEPT !.fdn1.coefficients = <<r.fs, c.dampening>>],
                    After(1), zReads \cup d1Reads \cup f1Reads, preOut)
        ELSE IF AnyReadThrows(d2Reads)
        THEN Thrown("d2", r3, After(2),
                    zReads \cup d1Reads \cup f1Reads \cup d2Reads, preOut)
        ELSE IF AnyReadThrows(f2Reads)
        THEN Thrown("fdn2", [r4 EXCEPT !.fdn2.coefficients = <<r.fs, c.dampening>>],
                    After(3),
                    zReads \cup d1Reads \cup f1Reads \cup d2Reads \cup f2Reads,
                    preOut)
        ELSE IF AnyReadThrows(d3Reads)
        THEN Thrown("d3", r5, After(4),
                    zReads \cup d1Reads \cup f1Reads \cup d2Reads \cup f2Reads
                        \cup d3Reads, preOut)
        ELSE [r |-> r6, data |-> MixDryWet(wet, dry, c.mix), err |-> "none",
              reads |-> zReads \cup d1Reads \cup f1Reads \cup d2Reads
                           \cup f2Reads \cup d3Reads,
              dry |-> dry, preIn |-> filtered, preOut |-> preOut, wet |-> wet,
              acc |-> acc, dryRead |-> DryChannelsRead(numSamples)]

----------------------------------------------------------------------------
(* FFTProcessor (src/Source/FFTProcessor.cpp).                              *)
(* The transform is JUCE code: bin k of the magnitude spectrum of a block   *)
(* is the term [bin |-> k, of |-> the samples of the block].  A statement   *)
(* of pushSamples, getFFTData or getAndResetFFTReadyFlag is one step, so    *)
(* that the two threads interleave wherever the lock lets them.             *)

FFTOrder == 2        \* order of the transform: fftSize = 2^order
MaxFFTBlocks == 2    \* number of blocks the audio thread completes

\* performFrequencyOnlyForwardTransform on the samples of fftBuffer: the
\* bins that pushSamples copies; the 0.0f of a new fftData are the magnitudes
\* of the silent buffer
Magnitudes(fftBuffer, fftSize) ==
    [k \in 0..(fftSize \div 2 - 1) |-> [bin |-> k, of |-> fftBuffer]]

\* FFTProcessor::FFTProcessor(order)
NewFFTProcessor(order) ==
    LET fftSize == Pow(2, order)
    IN  [fftSize |-> fftSize,
         fftBuffer |-> [j \in 0..(fftSize - 1) |-> 0],
         fftBufferWritePos |-> 0,
         fftData |-> Magnitudes([j \in 0..(fftSize - 1) |-> 0], fftSize),
         nextFFTBlockReady |-> FALSE]

\* (mutant) a lock that excludes nobody
LockIsFree_Always(lock) == TRUE

\* whether a ScopedLock on fftDataLock can be taken
LockIsFree(lock) == lock = "free"

\* the samples of block b (from 1) of the signal pushed: sample t of the
\* signal has the value t
BlockSamples(b, fftSize) ==
    [j \in 0..(fftSize - 1) |-> (b - 1) * fftSize + j + 1]

----------------------------------------------------------------------------
(* Diffuser (src/source/reverb/Diffuser.cpp).                               *)
(* process runs one iteration per channel, and the iterations may run in    *)
(* parallel.  An iteration is the call of DVNConvolver::process on its      *)
(* channel, taken in three steps: the block is written into the delay line  *)
(* and sum2 cleared, the buckets are summed and filtered, the result is     *)
(* copied into the block and normalised.                                    *)

\* the channel counts N a diffuser is built with
DiffuserChannels == {0, 1, 2, 3}

\* Diffuser::Diffuser(N, M, p, blockSize, fs), N >= 1 and M >= 1: one
\* DVNConvolver per channel, each with the draws draws[channel]
NewDiffuserConvolvers(N, M, p, blockSize, fs, draws) ==
    [N |-> N,
     dvnConvolvers |->
        [channel \in 1..N |->
            NewDVNConvolver(M, p, blockSize, fs, draws[channel],
                MaxElement(PulsePositions(M, p, fs, draws[channel])))]]

\* a Diffuser that has not been built
DefaultDiffuser == [N |-> 0, dvnConvolvers |-> <<>>]

\* (mutant) every iteration works on the first convolver
ConvolverOf_First(channel) == 1

\* dvnConvolvers[channel]: the convolver iteration channel calls process on
ConvolverOf(channel) == channel

\* the locations iteration channel reads or writes: the samples of its
\* channel of the buffer and the members of the convolver it calls
IterationAccesses(channel) ==
    {[kind |-> "channel", index |-> channel],
     [kind |-> "convolver", index |-> ConvolverOf(channel)]}

\* z->writeBlock(block, blockSize) and the clearing of sum2
IterationWrite(d, buf, channel) ==
    LET owner == ConvolverOf(channel)
        c == d.dvnConvolvers[owner]
        n == Len(buf[channel])
    IN  [d EXCEPT !.dvnConvolvers[owner] =
            [c EXCEPT !.z = WriteBlock(c.z, buf[channel], n),
                      !.sum2 = Overlay(c.sum2, [i \in 1..n |-> 0])]]

\* the loop over the buckets
IterationSum(d, buf, channel) ==
    LET owner == ConvolverOf(channel)
        c == d.dvnConvolvers[owner]
        n == Len(buf[channel])
        r == DVNBuckets(c, c.z, c.RRS, 1, [i \in 1..n |-> c.sum1[i]],
                        [i \in 1..n |-> c.sum2[i]])
    IN  [d EXCEPT !.dvnConvolvers[owner] =
            [c EXCEPT !.RRS = r.RRS,
                      !.sum1 = Overlay(c.sum1, r.sum1),
                      !.sum2 = Overlay(c.sum2, r.sum2)]]

\* the copy of sum2 into the block and the normalisation
IterationCopy(d, buf, channel) ==
    LET c == d.dvnConvolvers[ConvolverOf(channel)]
    IN  [buf EXCEPT ![channel] =
            [i \in 1..Len(buf[channel]) |->
                DVNNormalise(c.sum2[i], c.M * (c.wmax - c.wmin + 1))]]

----------------------------------------------------------------------------
(* The delay-line harness: one line, built once, then driven by calls.      *)
(* dlHist is every sample written so far, dlLast the last write, dlKinds    *)
(* the kinds of write made so far, dlRes the last call with what the caller *)
(* got back.                                                                *)

NoRes ==
    [op |-> "none", M |-> 0, maxBlockSize |-> 0, tau |-> 0, n |-> 0,
     isNull |-> FALSE, err |-> FALSE, val |-> <<>>]
NoLast == [op |-> "none", input |-> <<>>, from |-> 0]

\* the state of a harness that is not running
DLIdle ==
    /\ dl = DefaultDelayLine
    /\ dlStatus = "none"
    /\ dlHist = <<>>
    /\ dlLast = NoLast
    /\ dlKinds = {}
    /\ dlRes = NoRes

RRSIdle ==
    /\ rrs = DefaultRRSFilter
    /\ rrsStatus = "none"
    /\ rrsX = <<>>
    /\ rrsY = <<>>

\* an audio buffer of no channels
EmptyBuffer == [numChannels |-> 0, numSamples |-> 0, data |-> <<>>]

HadIdle ==
    /\ hadMode = "none"
    /\ hadFrame = <<>>
    /\ hadBuf = EmptyBuffer
    /\ hadIn = <<>>
    /\ hadCalls = 0
    /\ hadErr = FALSE

\* the constructor call of a convolver harness that has made none
NoDVNReq == [M |-> 0, p |-> 0, maxBlockSize |-> 0, fs |-> 0]

DVNIdle ==
    /\ dvn = DefaultDVNConvolver
    /\ dvnStatus = "none"
    /\ dvnReq = NoDVNReq
    /\ dvnIn = <<>>
    /\ dvnOut = <<>>
    /\ dvnCalls = 0

FDNIdle ==
    /\ fdn = DefaultFDN
    /\ fdnStatus = "none"
    /\ fdnIn = <<>>
    /\ fdnOut = <<>>
    /\ fdnRoom = <<1, 1>>
    /\ fdnCalls = 0
    /\ fdnFed = 0

NoRevCall ==
    [c |-> [mix |-> <<0, 1>>, stereoWidth |-> <<0, 1>>, lowPass |-> 0,
            highPass |-> 0, dampening |-> 0, roomSize |-> <<0, 1>>,
            initialDelay |-> <<0, 1>>],
     in |-> <<>>, out |-> <<>>, dry |-> <<>>, wet |-> <<>>, err |-> "none",
     reads |-> {}, preIn |-> <<>>, preOut |-> <<>>,
     acc |-> [channels |-> 0, madeLowPass |-> FALSE, madeHighPass |-> FALSE,
              lowPassUsed |-> <<>>, highPassUsed |-> <<>>,
              filters |-> {}, numFilters |-> 0, lines |-> {}, numLines |-> 0,
              rebuilt |-> FALSE],
     dryRead |-> {}]

\* the input, the output and the delay index of the pre-delay stage, sample
\* by sample over all calls since the pre-delay lines were last built
NoPre == [in |-> <<<<>>, <<>>>>, out |-> <<<<>>, <<>>>>, tau |-> <<>>]

RevIdle ==
    /\ rev = DefaultReverb
    /\ revStatus = "none"
    /\ revCalls = 0
    /\ revFed = 0
    /\ revLast = NoRevCall
    /\ revPre = NoPre

FFTIdle ==
    /\ fft = NewFFTProcessor(FFTOrder)
    /\ fftLock = "free"
    /\ audio = [pc |-> "push", pushed |-> 0, k |-> 0, fftDataBlock |-> fft.fftData]
    /\ timer = [pc |-> "idle", ready |-> FALSE, since |-> 0, flags |-> 0,
                k |-> 0, copy |-> fft.fftData, fftCopy |-> fft.fftData,
                fetches |-> 0]
    /\ fftSince = 0

CombIdle ==
    /\ comb = DefaultDelayLine
    /\ combStatus = "none"
    /\ combFed = 0
    /\ combIn = <<>>
    /\ combOut = <<>>
    /\ combOps = {}
    /\ combErr = FALSE

\* the call of process of a diffuser harness that has made none: the buffer
\* before (in) and now (buf), the convolvers before the call, the step each
\* iteration is at and the locations it has accessed
NoDiffRun == [in |-> <<>>, buf |-> <<>>, before |-> <<>>, pc |-> <<>>, acc |-> <<>>]

DiffIdle ==
    /\ diffuser = DefaultDiffuser
    /\ diffStatus = "none"
    /\ diffRun = NoDiffRun

\* what a delay-line call leaves alone
DLFrame == UNCHANGED <<rrsVars, hadVars, dvnVars, fdnVars, revVars, fftVars, combVars,
      diffVars>>

DLInit ==
    /\ DLIdle
    /\ RRSIdle
    /\ HadIdle
    /\ DVNIdle
    /\ FDNIdle
    /\ RevIdle
    /\ FFTIdle
    /\ CombIdle
    /\ DiffIdle

\* new DelayLine(M, g, maxBlockSize)
DLConstruct ==
    /\ dlStatus = "none"
    /\ \E M \in (-1)..MaxM, maxBlockSize \in (-1)..MaxBlock :
          /\ dlRes' = [NoRes EXCEPT !.op = "construct", !.M = M,
                                    !.maxBlockSize = maxBlockSize,
                                    !.err = DelayLineCtorThrows(M, maxBlockSize)]
          /\ IF DelayLineCtorThrows(M, maxBlockSize)
             THEN /\ dlStatus' = "rejected"
                  /\ dl' = dl
             ELSE /\ dlStatus' = "ok"
                  /\ dl' = NewDelayLine(M, 0, maxBlockSize)
    /\ UNCHANGED <<dlHist, dlLast, dlKinds>>
    /\ DLFrame

\* writeSample(x)
DLWriteSample ==
    /\ dlStatus = "ok"
    /\ Len(dlHist) < MaxWrites
    /\ \E x \in Samples :
          /\ dl' = WriteSample(dl, x)
          /\ dlHist' = Append(dlHist, x)
          /\ dlLast' = [op |-> "writeSample", input |-> <<x>>, from |-> dl.write]
    /\ dlKinds' = dlKinds \cup {"sample"}
    /\ dlRes' = [NoRes EXCEPT !.op = "writeSample", !.n = 1]
    /\ UNCHANGED dlStatus
    /\ DLFrame

\* readSample(tau): a const method, the result or the exception goes to the caller
DLReadSample ==
    /\ dlStatus = "ok"
    /\ \E tau \in (-1)..(dl.M + 1) :
          dlRes' = [NoRes EXCEPT !.op = "readSample", !.tau = tau, !.n = 1,
                       !.err = ReadSampleThrows(dl, tau),
                       !.val = IF ReadSampleThrows(dl, tau) THEN <<>>
                               ELSE <<ReadSample(dl, tau)>>]
    /\ UNCHANGED <<dl, dlStatus, dlHist, dlLast, dlKinds>>
    /\ DLFrame

\* readBlock(tau, n): a const method, the span or the exception goes to the caller
DLReadBlock ==
    /\ dlStatus = "ok"
    /\ \E tau \in (-1)..(dl.M + 1), n \in (-1)..(dl.bufferSize + 1) :
          dlRes' = [NoRes EXCEPT !.op = "readBlock", !.tau = tau, !.n = n,
                       !.err = ReadBlockThrows(dl, tau, n),
                       !.val = IF ReadBlockThrows(dl, tau, n) THEN <<>>
                               ELSE ReadBlock(dl, tau, n)]
    /\ UNCHANGED <<dl, dlStatus, dlHist, dlLast, dlKinds>>
    /\ DLFrame

\* writeBlock(input, n).  A length whose second part exceeds bufferSize makes
\* memcpy write past the vector: the run either dies there or goes on with the
\* cells of the vector overwritten.
DLWriteBlock ==
    /\ dlStatus = "ok"
    /\ DLFrame
    /\ \E n \in 0..(dl.bufferSize + 2), isNull \in BOOLEAN :
          /\ Len(dlHist) + n <= MaxWrites
          /\ dlRes' = [NoRes EXCEPT !.op = "writeBlock", !.n = n, !.isNull = isNull]
          /\ \E input \in SeqsOfLen(Samples, n) :
                IF WriteBlockSkips(isNull, n)
                THEN UNCHANGED <<dl, dlStatus, dlHist, dlLast, dlKinds>>
                ELSE \E outcome \in IF WriteBlockOverflows(dl, n)
                                    THEN {"crashed", "ok"} ELSE {"ok"} :
                        /\ dlStatus' = outcome
                        /\ dl' = WriteBlock(dl, input, n)
                        /\ dlHist' = dlHist \o input
                        /\ dlLast' = [op |-> "writeBlock", input |-> input,
                                      from |-> dl.write]
                        /\ dlKinds' = dlKinds \cup
                              {IF n > dl.bufferSize THEN "oversize" ELSE "block"}

DLNext == DLConstruct \/ DLWriteSample \/ DLReadSample \/ DLReadBlock \/ DLWriteBlock

SpecDL == DLInit /\ [][DLNext]_vars

----------------------------------------------------------------------------
(* Claims about the delay line, checked under SpecDL *)

\* the maxBlockSize the line was built with
MaxBlockSizeOf(d) == d.bufferSize - d.M

\* C1: after writes, readSample(tau) for every tau in 0..M with at least
\* tau+1 samples written returns the sample written tau calls before the most
\* recent one, also once the write cursor has wrapped (no block longer than
\* the buffer having been written).
C1_ReadSampleRoundTrip ==
    (dlStatus = "ok" /\ "oversize" \notin dlKinds) =>
        /\ \A tau \in 0..dl.M :
              Len(dlHist) >= tau + 1 =>
                 /\ ~ReadSampleThrows(dl, tau)
                 /\ ReadSample(dl, tau) = dlHist[Len(dlHist) - tau]
        /\ (dlRes.op = "readSample" /\ dlRes.tau \in 0..dl.M
               /\ Len(dlHist) >= dlRes.tau + 1) =>
              /\ ~dlRes.err
              /\ dlRes.val = <<dlHist[Len(dlHist) - dlRes.tau]>>

\* readSample(M) with M >= 1 answered after writeSample calls alone have
\* taken the cursor past the end of the buffer
C1_Witness ==
    /\ dlStatus = "ok" /\ dlKinds = {"sample"}
    /\ dlRes.op = "readSample" /\ ~dlRes.err
    /\ dlRes.tau = dl.M /\ dl.M >= 1
    /\ Len(dlHist) > dl.bufferSize

\* C2: writeBlock(b, n) with 1 <= n <= maxBlockSize followed at once by
\* readBlock(0, n) yields the n values of b in order, from every cursor
\* position, the positions where the block straddles the wrap point included.
C2_WriteBlockReadBlock ==
    (/\ dlStatus = "ok"
     /\ dlLast.op = "writeBlock"
     /\ Len(dlLast.input) \in 1..MaxBlockSizeOf(dl)) =>
        /\ ~ReadBlockThrows(dl, 0, Len(dlLast.input))
        /\ ReadBlock(dl, 0, Len(dlLast.input)) = dlLast.input
        /\ (dlRes.op = "readBlock" /\ dlRes.tau = 0
               /\ dlRes.n = Len(dlLast.input)) =>
              (~dlRes.err /\ dlRes.val = dlLast.input)

\* readBlock(0, n) answered right after a writeBlock that straddled the wrap point
C2_Witness ==
    /\ dlStatus = "ok"
    /\ dlLast.op = "writeBlock"
    /\ Len(dlLast.input) \in 2..MaxBlockSizeOf(dl)
    /\ dlLast.from + Len(dlLast.input) > dl.bufferSize
    /\ dlRes.op = "readBlock" /\ dlRes.tau = 0 /\ dlRes.n = Len(dlLast.input)
    /\ ~dlRes.err

\* C8: readSample(tau) and readBlock(tau, n) with tau < 0 or tau > M, and
\* readBlock with n <= 0 or n > bufferSize - tau, hand an error to the caller
\* in the same call and leave buffer and write cursor as they were.
C8_InvalidReadsRejected ==
    [][(\/ /\ dlRes'.op = "readSample"
           /\ (dlRes'.tau < 0 \/ dlRes'.tau > dl.M)
        \/ /\ dlRes'.op = "readBlock"
           /\ \/ dlRes'.tau < 0 \/ dlRes'.tau > dl.M
              \/ dlRes'.n <= 0 \/ dlRes'.n > dl.bufferSize - dlRes'.tau)
       => (dlRes'.err /\ dlRes'.val = <<>> /\ dl' = dl /\ dlStatus' = dlStatus)]_vars

\* a readBlock whose length exceeds the span left after tau was refused
C8_Witness ==
    /\ dlRes.op = "readBlock" /\ dlRes.err
    /\ dlRes.tau \in 1..dl.M
    /\ dlRes.n \in 1..dl.bufferSize
    /\ dlRes.n > dl.bufferSize - dlRes.tau
    /\ dlHist # <<>>

\* C9: a writeBlock of more than bufferSize samples is refused with an error and
\* leaves buffer and write cursor as they were.
C9_OversizeWriteRejected ==
    [][(dlRes'.op = "writeBlock" /\ ~dlRes'.isNull /\ dlRes'.n > dl.bufferSize)
       => (dlRes'.err /\ dl' = dl)]_vars

\* C10 as stated: construction is refused whenever M <= 0 or maxBlockSize <= 0,
\* and no line with M <= 0 exists.
C10_NonPositiveRejected ==
    /\ (dlRes.op = "construct" /\ (dlRes.M <= 0 \/ dlRes.maxBlockSize <= 0))
          => (dlRes.err /\ dlStatus = "rejected")
    /\ dlStatus \in {"ok", "crashed"} => dl.M > 0

\* C10 amended: construction is refused exactly when M < 0 or maxBlockSize <= 0;
\* M = 0 is accepted, and every line built has M >= 0 and bufferSize >= 1.
C10_NegativeRejected ==
    /\ dlRes.op = "construct" =>
          /\ dlRes.err <=> (dlRes.M < 0 \/ dlRes.maxBlockSize <= 0)
          /\ dlStatus = (IF dlRes.err THEN "rejected" ELSE "ok")
          /\ ~dlRes.err =>
                /\ dl.M = dlRes.M
                /\ dl.bufferSize = dlRes.M + dlRes.maxBlockSize
    /\ dlStatus \in {"ok", "crashed"} => (dl.M >= 0 /\ dl.bufferSize >= 1)

\* a construction with a negative M and a positive block size was refused
C10_Witness ==
    /\ dlRes.op = "construct" /\ dlRes.err /\ dlStatus = "rejected"
    /\ dlRes.M < 0 /\ dlRes.maxBlockSize > 0

----------------------------------------------------------------------------
(* The RRS-filter harness: one filter, built once, then fed blocks.         *)
(* rrsX is every input sample so far, rrsY every output sample.  Samples    *)
(* are counted in units of 1/RRSOne, RRSOne a power of EpsDen large enough  *)
(* for every product of the run to be whole.                                *)

RRSOne == Pow(EpsDen, MaxOrder + MaxRRSSamples)

RRSFrame == UNCHANGED <<dlVars, hadVars, dvnVars, fdnVars, revVars, fftVars, combVars,
      diffVars>>

RRSInit ==
    /\ DLIdle
    /\ RRSIdle
    /\ HadIdle
    /\ DVNIdle
    /\ FDNIdle
    /\ RevIdle
    /\ FFTIdle
    /\ CombIdle
    /\ DiffIdle

\* RRSFilter(M, k/EpsDen, maxBlockSize)
RRSConstruct ==
    /\ rrsStatus = "none"
    /\ \E M \in (-1)..MaxOrder, k \in 1..(EpsDen - 1), maxBlockSize \in 0..MaxBlock :
          IF RRSCtorThrows(M, maxBlockSize)
          THEN /\ rrsStatus' = "rejected"
               /\ rrs' = rrs
          ELSE /\ rrsStatus' = "ok"
               /\ rrs' = NewRRSFilter(M, k, EpsDen, maxBlockSize)
    /\ UNCHANGED <<rrsX, rrsY>>
    /\ RRSFrame

\* process(block, n) on a block of silence and unit samples
RRSProcessBlock ==
    /\ rrsStatus = "ok"
    /\ \E n \in 1..MaxBlock :
          /\ Len(rrsX) + n <= MaxRRSSamples
          /\ \E block \in SeqsOfLen({0, RRSOne}, n) :
                LET r == RRSProcess(rrs, block)
                IN  /\ rrs' = r.f
                    /\ rrsX' = rrsX \o block
                    /\ rrsY' = rrsY \o r.block
    /\ UNCHANGED rrsStatus
    /\ RRSFrame

RRSNext == RRSConstruct \/ RRSProcessBlock

SpecRRS == RRSInit /\ [][RRSNext]_vars

----------------------------------------------------------------------------
(* Claims about the RRS filter, checked under SpecRRS *)

Abs(v) == IF v < 0 THEN -v ELSE v

\* the input so far is a unit impulse: 1, then zeros
IsImpulse(xs) == xs # <<>> /\ xs[1] = RRSOne /\ \A i \in 2..Len(xs) : xs[i] = 0

\* C3: a filter of order M > 0 with 0 < epsilon < 1, started from zero state
\* and driven by a unit impulse, puts out (1-epsilon)^n at each sample n < M,
\* and from sample M on its output never grows in magnitude.
C3_ImpulseResponse ==
    (rrsStatus = "ok" /\ rrs.M > 0 /\ IsImpulse(rrsX)) =>
        \A n \in 0..(Len(rrsY) - 1) :
            /\ n < rrs.M =>
                  rrsY[n + 1] * Pow(rrs.epsDen, n)
                     = RRSOne * Pow(rrs.epsDen - rrs.epsNum, n)
            /\ (n >= rrs.M /\ n >= 1) => Abs(rrsY[n + 1]) <= Abs(rrsY[n])

\* sample n (from 1) of a signal that is zero before its start
SampleAt(xs, n) == IF n >= 1 THEN xs[n] ELSE 0

\* C17: at every sample n, counted across blocks, process fetches x[n-M] as
\* the delayed input and y[n-1] as the previous output, both zero before the
\* start, so that y[n] = (1-eps)*y[n-1] + x[n] - (1-eps)^M * x[n-M]
C17_FetchesDelayedSamples ==
    rrsStatus = "ok" =>
        \A n \in 1..Len(rrsY) :
            rrsY[n] =
                (rrsX[n] - MulPow(SampleAt(rrsX, n - rrs.M),
                                  rrs.epsDen - rrs.epsNum, rrs.epsDen, rrs.M))
                    + MulFrac(SampleAt(rrsY, n - 1),
                              rrs.epsDen - rrs.epsNum, rrs.epsDen)

----------------------------------------------------------------------------
(* The Hadamard harness: a frame (the std::vector overload) or an audio     *)
(* buffer (the AudioBuffer overload) of samples -1, 0 and 1, to which       *)
(* process is applied up to MaxHadCalls times.  hadIn is the input as it    *)
(* was before the first call.  Samples are counted in units of 1/HadUnit.   *)

HadUnit == Pow(2, MaxLogN * MaxHadCalls)

HadSamples == {SInt(-HadUnit), SZero, SInt(HadUnit)}

HadFrame == UNCHANGED <<dlVars, rrsVars, dvnVars, fdnVars, revVars, fftVars, combVars,
      diffVars>>

\* every buffer of c channels and n samples over HadSamples
BuffersOf(c, n) ==
    {[numChannels |-> c, numSamples |-> n, data |-> d] :
        d \in [1..c -> [1..n -> HadSamples]]}

HadInit ==
    /\ DLIdle
    /\ RRSIdle
    /\ DVNIdle
    /\ FDNIdle
    /\ hadCalls = 0
    /\ hadErr = FALSE
    /\ \/ /\ hadMode = "vector"
          /\ \E N \in 0..Pow(2, MaxLogN) : hadFrame \in SeqsOfLen(HadSamples, N)
          /\ hadBuf = EmptyBuffer
          /\ hadIn = hadFrame
       \/ /\ hadMode = "buffer"
          /\ hadFrame = <<>>
          /\ \E c \in 0..(MaxLogN + 1), n \in 0..MaxBufSamples :
                hadBuf \in BuffersOf(c, n)
          /\ hadIn = hadBuf.data
    /\ RevIdle
    /\ FFTIdle
    /\ CombIdle
    /\ DiffIdle

\* Hadamard::process(frame)
HadProcessVector ==
    /\ hadMode = "vector"
    /\ hadCalls < MaxHadCalls
    /\ hadFrame' = HadamardVector(hadFrame)
    /\ hadCalls' = hadCalls + 1
    /\ UNCHANGED <<hadMode, hadBuf, hadIn, hadErr>>
    /\ HadFrame

\* Hadamard::process(buffer)
HadProcessBuffer ==
    /\ hadMode = "buffer"
    /\ hadCalls < MaxHadCalls
    /\ ~hadErr
    /\ IF HadamardBufferThrows(hadBuf)
       THEN /\ hadErr' = TRUE
            /\ hadBuf' = hadBuf
       ELSE /\ hadErr' = FALSE
            /\ hadBuf' = HadamardBuffer(hadBuf)
    /\ hadCalls' = hadCalls + 1
    /\ UNCHANGED <<hadMode, hadFrame, hadIn>>
    /\ HadFrame

HadNext == HadProcessVector \/ HadProcessBuffer

SpecHad == HadInit /\ [][HadNext]_vars

----------------------------------------------------------------------------
(* Claims about the Hadamard mixer, checked under SpecHad *)

RECURSIVE SSum(_)
SSum(seq) == IF seq = <<>> THEN SZero ELSE SAdd(seq[1], SSum(Tail(seq)))

\* the sum of the squares of a frame
Energy(frame) == SSum([i \in 1..Len(frame) |-> SSquare(frame[i])])

IsPowerOfTwo(N) == N >= 1 /\ Pow(2, Log2(N)) = N

\* the frame of the input buffer data at one sample index
InFrame(data, sample) == [ch \in 1..Len(data) |-> data[ch][sample]]

\* C4: for every frame of N values, N a power of two, the mixer preserves
\* the sum of squares; before the 1/sqrt(N) scaling the sum of squares is N
\* times that of the input.  Both overloads.
C4_EnergyPreserved ==
    /\ (hadMode = "vector" /\ IsPowerOfTwo(Len(hadIn))) =>
          /\ Energy(hadFrame) = Energy(hadIn)
          /\ Energy(HadamardButterfly(hadFrame, 1))
                = SInt(Len(hadFrame) * Energy(hadFrame).a)
    /\ (hadMode = "buffer" /\ IsPowerOfTwo(hadBuf.numChannels)) =>
          /\ ~hadErr
          /\ \A sample \in 1..hadBuf.numSamples :
                Energy(BufferFrame(hadBuf, sample)) = Energy(InFrame(hadIn, sample))

\* a frame of four values, not all zero, has been mixed
C4_Witness ==
    /\ hadMode = "vector" /\ hadCalls >= 1
    /\ Len(hadIn) = 4
    /\ Energy(hadIn) # SZero
    /\ hadFrame # hadIn

\* C5: for every frame of N values, N a power of two, the mixer applied twice
\* gives the frame back: the butterfly applied twice gives N times the frame,
\* and the two scalings by 1/sqrt(N) take the factor N away.
C5_SelfInverse ==
    /\ (hadMode = "vector" /\ IsPowerOfTwo(Len(hadIn))) =>
          /\ hadCalls = 2 => hadFrame = hadIn
          /\ HadamardButterfly(HadamardButterfly(hadIn, 1), 1)
                = [i \in 1..Len(hadIn) |-> SInt(Len(hadIn) * hadIn[i].a)]
          /\ \A i \in 1..Len(hadIn) :
                HadamardScale(HadamardScale(SInt(Len(hadIn) * hadIn[i].a),
                                            Len(hadIn)), Len(hadIn)) = hadIn[i]
    /\ (hadMode = "buffer" /\ IsPowerOfTwo(hadBuf.numChannels) /\ hadCalls = 2) =>
          hadBuf.data = hadIn

\* a frame of two values, changed by the first call, is back after the second
C5_Witness ==
    /\ hadMode = "vector" /\ hadCalls = 2
    /\ Len(hadIn) = 2
    /\ hadFrame = hadIn
    /\ HadamardVector(hadIn) # hadIn

\* C11: whenever the frame size N (at least 1) is not a power of two, a call
\* of the mixer reports an error to its caller, in the sample-frame overload
\* and in the audio-buffer overload.
C11_NonPowerOfTwoFails ==
    /\ (hadMode = "vector" /\ hadCalls >= 1
           /\ Len(hadIn) >= 1 /\ ~IsPowerOfTwo(Len(hadIn))) => hadErr
    /\ (hadMode = "buffer" /\ hadCalls >= 1
           /\ hadBuf.numChannels >= 1 /\ ~IsPowerOfTwo(hadBuf.numChannels)) => hadErr

----------------------------------------------------------------------------
(* The convolver harness: one DVNConvolver, built once, then given blocks.  *)
(* dvnReq is the constructor call, dvnIn and dvnOut the block of the last   *)
(* process call before and after it.                                        *)

\* the sample value 1.0
DVNOne == DVNEpsDen

DVNFrame == UNCHANGED <<dlVars, rrsVars, hadVars, fdnVars, revVars, fftVars, combVars,
      diffVars>>

DVNInit ==
    /\ DLIdle
    /\ RRSIdle
    /\ HadIdle
    /\ DVNIdle
    /\ FDNIdle
    /\ RevIdle
    /\ FFTIdle
    /\ CombIdle
    /\ DiffIdle

\* what the evaluation of *std::max_element(k.begin(), k.end()) can do: give
\* the largest position, or, for an empty k, read the int at k.end() (no
\* such int exists: the read may end the process or give any value)
MaxElementOutcomes(k) ==
    IF k # <<>> THEN {[crashed |-> FALSE, value |-> MaxElement(k)]}
    ELSE {[crashed |-> TRUE, value |-> 0]}
            \cup {[crashed |-> FALSE, value |-> v] : v \in GarbageInts}

\* new DVNConvolver(N, M, p, maxBlockSize, fs)
DVNConstruct ==
    /\ dvnStatus = "none"
    /\ \E M \in 0..MaxPulses, p \in DVNDensities, fs \in DVNRates,
          maxBlockSize \in 0..MaxDVNBlock :
         \E draws \in [1..M -> [1..3 -> 0..(RDen - 1)]] :
           \E o \in MaxElementOutcomes(PulsePositions(M, p, fs, draws)) :
              /\ dvnReq' = [M |-> M, p |-> p, maxBlockSize |-> maxBlockSize, fs |-> fs]
              /\ IF o.crashed
                 THEN /\ dvnStatus' = "crashed"
                      /\ dvn' = dvn
                 ELSE IF DelayLineCtorThrows(o.value, maxBlockSize)
                 THEN /\ dvnStatus' = "rejected"
                      /\ dvn' = dvn
                 ELSE /\ dvnStatus' = "ok"
                      /\ dvn' = NewDVNConvolver(M, p, maxBlockSize, fs, draws, o.value)
    /\ UNCHANGED <<dvnIn, dvnOut, dvnCalls>>
    /\ DVNFrame

\* process(block, blockSize) with 0 < blockSize <= maxBlockSize
DVNProcessBlock ==
    /\ dvnStatus = "ok"
    /\ dvnCalls < MaxDVNCalls
    /\ \E n \in 1..Len(dvn.sum1) :
         \E block \in SeqsOfLen({0, DVNOne}, n) :
            LET r == DVNProcess(dvn, block)
            IN  /\ dvn' = r.c
                /\ dvnIn' = block
                /\ dvnOut' = r.block
    /\ dvnCalls' = dvnCalls + 1
    /\ UNCHANGED <<dvnStatus, dvnReq>>
    /\ DVNFrame

\* process(block, blockSize) with blockSize = maxBlockSize + 1: nothing
\* checks the size, and the clearing of sum2 writes past the end of the
\* vector, which may end the process or damage the heap
DVNProcessTooLong ==
    /\ dvnStatus = "ok"
    /\ dvnCalls < MaxDVNCalls
    /\ \E block \in SeqsOfLen({0, DVNOne}, Len(dvn.sum1) + 1) :
          /\ dvn' = DVNProcessOversize(dvn, block)
          /\ dvnIn' = block
    /\ dvnStatus' \in {"crashed", "corrupted"}
    /\ dvnCalls' = dvnCalls + 1
    /\ UNCHANGED <<dvnReq, dvnOut>>
    /\ DVNFrame

DVNNext == DVNConstruct \/ DVNProcessBlock \/ DVNProcessTooLong

SpecDVN == DVNInit /\ [][DVNNext]_vars

----------------------------------------------------------------------------
(* Properties of DVNConvolver *)

\* a sample of an output block that is the number zero
IsZeroSample(v) == v.kind = "num" /\ v.num = 0

\* C6: a DVNConvolver constructed with M = 0 pulses (and a valid block size)
\* can be constructed and processed, and process turns every nonzero input
\* block into an all-zero block.
C6_NoPulsesSilent ==
    (dvnStatus # "none" /\ dvnReq.M = 0 /\ dvnReq.maxBlockSize > 0)
        => /\ dvnStatus = "ok"
           /\ (dvnCalls > 0 /\ \E i \in 1..Len(dvnIn) : dvnIn[i] # 0)
                 => \A i \in 1..Len(dvnOut) : IsZeroSample(dvnOut[i])

\* the number of times m occurs in the sequence q
Occurrences(q, m) == Cardinality({i \in 1..Len(q) : q[i] = m})

C29_OversizeRejected ==
    [][(dvnStatus = "ok" /\ dvnCalls' = dvnCalls + 1
            /\ Len(dvnIn') > Len(dvn.sum2))
          => /\ dvn' = dvn
             /\ dvnStatus' = "rejected"
             /\ \A i \in ScratchCellsCleared(Len(dvnIn')) : i < Len(dvn.sum2)]_vars

----------------------------------------------------------------------------
(* The network harness: one FDN, built once, then given blocks of N         *)
(* channels.  fdnIn and fdnOut are the buffer of the last process call      *)
(* before and after it, fdnRoom its roomSize, fdnFed the samples fed so far.*)

\* the sample value 1.0
FDNOne == Pow(2, 2)

\* the block sizes a network is built with: an invalid and a valid one
FDNBlockSizes == {0, 2}

FDNFrame == UNCHANGED <<dlVars, rrsVars, hadVars, dvnVars, revVars, fftVars, combVars,
      diffVars>>

FDNInit ==
    /\ DLIdle
    /\ RRSIdle
    /\ HadIdle
    /\ DVNIdle
    /\ FDNIdle
    /\ RevIdle
    /\ FFTIdle
    /\ CombIdle
    /\ DiffIdle

\* new FDN(N, m, blockSize)
FDNConstruct ==
    /\ fdnStatus = "none"
    /\ \E N \in FDNLineCounts, m \in 1..MaxBase, blockSize \in FDNBlockSizes :
         \E lengths \in [2..N -> JitterLengths(m)], gain \in FDNGains :
            IF FDNCtorThrows(N, blockSize)
            THEN /\ fdnStatus' = "rejected"
                 /\ fdn' = fdn
            ELSE /\ fdnStatus' = "ok"
                 /\ fdn' = NewFDN(N, lengths, [i \in 1..N |-> gain], blockSize)
    /\ UNCHANGED <<fdnIn, fdnOut, fdnRoom, fdnCalls, fdnFed>>
    /\ FDNFrame

\* process(buffer, dampening, fs, roomSize) on a buffer of z.size() channels;
\* an access outside M, g or H may end the process or damage the heap
FDNProcessBlock ==
    /\ fdnStatus = "ok"
    /\ fdnFed < MaxFDNSamples
    /\ \E n \in 1..(MaxFDNSamples - fdnFed), roomSize \in RoomSizes,
          dampening \in FDNDampenings, fs \in FDNRates :
         \E data \in [1..Len(fdn.z) -> SeqsOfLen({0, FDNOne}, n)] :
            /\ fdnIn' = data
            /\ fdnRoom' = roomSize
            /\ fdnFed' = fdnFed + n
            /\ IF FDNProcessOutOfBounds(fdn)
               THEN /\ fdnStatus' \in {"crashed", "corrupted"}
                    /\ UNCHANGED <<fdn, fdnOut>>
               ELSE \E r \in {FDNProcess(fdn, data, dampening, fs, roomSize)} :
                        /\ fdn' = r.f
                        /\ fdnOut' = r.data
                        /\ fdnStatus' = fdnStatus
    /\ fdnCalls' = fdnCalls + 1
    /\ FDNFrame

FDNNext == FDNConstruct \/ FDNProcessBlock

SpecFDN == FDNInit /\ [][FDNNext]_vars

----------------------------------------------------------------------------
(* Properties of FDN *)

\* every feedback gain of the network is 0
AllGainsZero == \A ch \in 1..fdn.N : fdn.g[ch] = "zero"

\* the whole number of samples in M[ch] * roomSize of the last call
ScaledDelay(ch) == (fdn.M[ch] * fdnRoom[1]) \div fdnRoom[2]

RoundedDelay(ch) == (2 * fdn.M[ch] * fdnRoom[1] + fdnRoom[2]) \div (2 * fdnRoom[2])

\* C21: in FDN.process every delay line i is read at the delay index
\* round(M[i] * roomSize), the product rounded to the nearest integer: the
\* index handed to readSample is the rounded product, and with zero gains a
\* line returns its input after that many samples plus the one sample of
\* readSample.
C21_ReadAtRoundedProduct ==
    (fdnCalls >= 1 /\ fdnStatus = "ok")
        => /\ \A ch \in 1..fdn.N :
                 DelayIndex(fdn.M[ch], fdnRoom) = RoundedDelay(ch)
           /\ (fdnCalls = 1 /\ AllGainsZero)
                 => \A ch \in 1..fdn.N : \A s \in 1..Len(fdnOut[ch]) :
                       fdnOut[ch][s] =
                          IF s - 1 <= RoundedDelay(ch) THEN FZero
                          ELSE FDry(fdnIn[ch][s - 1 - RoundedDelay(ch)])

\* the sample line ch took in at sample i of the last call, i among the
\* last bufferSize samples: it lies Len(fdnIn[ch]) - i + 1 places behind the
\* write cursor
WrittenAt(ch, i) ==
    LET d == fdn.z[ch]
    IN  d.buffer[(d.write + d.bufferSize - (Len(fdnIn[ch]) - i + 1)) % d.bufferSize]

\* the frame of delayed outputs of sample s of the last call
DelayedFrame(s) == [ch \in 1..Len(fdn.z) |-> fdnOut[ch][s]]

\* C22: for every sample of a block FDN.process captures the input of every
\* line, writes to output channel ch the value read from line ch before
\* mixing, and writes back into line ch input[ch] + g[ch] * damp(mixed[ch]),
\* mixed being the Hadamard transform of the delayed outputs and input the
\* sample captured before the output overwrote the buffer; every line is
\* written exactly once per sample, so all lines advance in lockstep.
C22_SampleLoopOrder ==
    (fdnCalls >= 1 /\ fdnStatus = "ok")
        => \A ch \in 1..Len(fdn.z) :
              LET d == fdn.z[ch]
                  n == Len(fdnIn[ch])
                  tau == ScaledDelay(ch)
              IN  /\ d.write = fdnFed % d.bufferSize
                  /\ Len(fdnOut[ch]) = n
                  /\ \A i \in 1..n :
                        (n - i + 1 <= d.bufferSize)
                           => /\ WrittenAt(ch, i).dry = fdnIn[ch][i]
                              /\ WrittenAt(ch, i).fb => fdn.g[ch] = "drawn"
                              /\ fdnCalls = 1
                                   => (WrittenAt(ch, i).fb <=>
                                         /\ fdn.g[ch] = "drawn"
                                         /\ \E j \in 1..i :
                                               ~MixedIsZero(DelayedFrame(j), ch))
                  /\ \A s \in 1..n :
                        (s - 1 - tau >= 1 /\ n - s + tau + 2 <= d.bufferSize)
                           => fdnOut[ch][s] = WrittenAt(ch, s - 1 - tau)
                  /\ fdnCalls = 1
                        => \A s \in 1..n : s - 1 - tau < 1 => fdnOut[ch][s] = FZero

\* a call after which a line holds a fed-back term: the delayed output of
\* the dummy line was a nonzero input sample, and it was mixed into a line
\* whose gain is not zero
C22_Witness ==
    /\ fdnCalls >= 1
    /\ fdnStatus = "ok"
    /\ fdn.N = 2
    /\ Len(fdnOut[1]) = 2
    /\ fdnOut[1][2] = FDry(FDNOne)
    /\ fdnIn[2][2] = FDNOne
    /\ WrittenAt(2, 2) = [dry |-> FDNOne, fb |-> TRUE]

\* C23: FDN.process recomputes the damping filter coefficients only when
\* the dampening value differs from the one of the previous block: a call
\* that leaves the sample rate and the cutoff of a filter as the previous
\* call set them computes no coefficient set for it.
C23_RecomputeOnlyOnChange ==
    [][(fdnCalls >= 1 /\ fdnCalls' = fdnCalls + 1 /\ fdnStatus' = "ok")
          => \A ch \in 1..Len(fdn.H) :
                fdn'.H[ch].coefficients = fdn.H[ch].coefficients
                   => fdn'.H[ch].made = fdn.H[ch].made]_vars

\* C12: an FDN whose line count N is not positive or not a power of two is
\* rejected at construction, so that process never runs with a number of
\* delay lines that is not a power of two.
C12_BadLineCountRejected ==
    /\ fdnStatus = "ok" => (fdn.N >= 1 /\ IsPowerOfTwo(fdn.N))
    /\ fdnCalls >= 1 => IsPowerOfTwo(Len(fdn.z))

----------------------------------------------------------------------------
(* The reverb harness: a Reverb is set up once, as prepareToPlay does, and  *)
(* then processes mono and stereo buffers with control values that change   *)
(* from call to call.                                                       *)

\* the control values of the calls: the ends of every range of
\* PluginProcessor.cpp:16-24 and a point inside; rationals are <<num, den>>
Controls ==
    {[mix |-> <<0, 1>>, stereoWidth |-> <<0, 1>>, lowPass |-> 20, highPass |-> 20,
      dampening |-> 20, roomSize |-> <<1, 10>>, initialDelay |-> <<0, 1>>],
     [mix |-> <<1, 2>>, stereoWidth |-> <<1, 1>>, lowPass |-> 20000, highPass |-> 20,
      dampening |-> 8000, roomSize |-> <<1, 1>>, initialDelay |-> <<1, 1024>>],
     [mix |-> <<1, 1>>, stereoWidth |-> <<1, 1>>, lowPass |-> 20000, highPass |-> 20,
      dampening |-> 8000, roomSize |-> <<1, 2>>, initialDelay |-> <<0, 1>>],
     [mix |-> <<1, 1>>, stereoWidth |-> <<2, 1>>, lowPass |-> 20000,
      highPass |-> 20000, dampening |-> 20000, roomSize |-> <<2, 1>>,
      initialDelay |-> <<1, 10>>]}

\* the signal fed: sample t (from 1) of channel ch (from 1) over all calls;
\* no two samples of it are equal, so a misplaced sample shows
RevSignal(t, ch) == 2 * (t - 1) + ch

RevFrame == UNCHANGED <<dlVars, rrsVars, hadVars, dvnVars, fdnVars, fftVars, combVars,
      diffVars>>

RevInit ==
    /\ DLIdle
    /\ RRSIdle
    /\ HadIdle
    /\ DVNIdle
    /\ FDNIdle
    /\ RevIdle
    /\ FFTIdle
    /\ CombIdle
    /\ DiffIdle

\* r = std::make_unique<Reverb>(sampleRate, samplesPerBlock); every pulse of
\* every convolver draws the same <<j, j, j>>, every line of both networks
\* the same jitter
RevConstruct ==
    /\ revStatus = "none"
    /\ \E fs \in ReverbRates, blockSize \in 0..MaxRevBlock, j \in 0..(RDen - 1) :
         \E length \in {TenthOf(fs), 2 * TenthOf(fs)} :
            IF ReverbCtorThrows(blockSize)
            THEN /\ revStatus' = "rejected"
                 /\ rev' = rev
            ELSE /\ revStatus' = "ok"
                 /\ rev' = NewReverb(fs, blockSize,
                               [d \in 1..3 |-> [channel \in 1..8 |->
                                   [m \in 1..200 |-> <<j, j, j>>]]],
                               [f \in 1..2 |-> [i \in 1..8 |-> length]])
    /\ UNCHANGED <<revCalls, revFed, revLast, revPre>>
    /\ RevFrame

\* the channel counts of the buffers: the mono and the stereo bus layout
RevChannelCounts == {1, 2}

\* r->process(buffer, mix, ...) on a mono or stereo buffer of n samples, n at
\* most the block size of the set-up; an exception leaves process for good.
\* A read through the null channel pointer of the dry snapshot is undefined:
\* it ends the process, or gives some value and the call goes on
RevProcess ==
    /\ revStatus = "ok"
    /\ \E n \in 0..(IF rev.blockSize < MaxRevSamples - revFed
                    THEN rev.blockSize ELSE MaxRevSamples - revFed),
          c \in Controls, numChannels \in RevChannelCounts :
         \E res \in {ReverbProcess(rev,
                         [ch \in 1..numChannels |->
                             [i \in 1..n |-> RNum(RevSignal(revFed + i, ch))]],
                         c)} :
         LET data == res.dry
             tau == ScaleToInt(c.initialDelay, rev.fs)
             since == IF Len(rev.z) # numChannels
                      THEN [in |-> [ch \in 1..numChannels |-> <<>>],
                            out |-> [ch \in 1..numChannels |-> <<>>],
                            tau |-> <<>>]
                      ELSE revPre
         IN  /\ rev' = res.r
             /\ IF res.err # "none" THEN revStatus' = "failed"
                ELSE IF \E ch \in res.dryRead : ch >= numChannels
                THEN revStatus' \in {"ok", "crashed"}
                ELSE revStatus' = "ok"
             /\ revFed' = revFed + n
             /\ revLast' = [c |-> c, in |-> data, out |-> res.data,
                            dry |-> res.dry, wet |-> res.wet,
                            err |-> res.err, reads |-> res.reads,
                            preIn |-> res.preIn, preOut |-> res.preOut,
                            acc |-> res.acc, dryRead |-> res.dryRead]
             /\ revPre' =
                   IF res.err = "z" THEN since
                   ELSE [in |-> [ch \in 1..numChannels |->
                                    since.in[ch] \o res.preIn[ch]],
                         out |-> [ch \in 1..numChannels |->
                                     since.out[ch] \o res.preOut[ch]],
                         tau |-> since.tau \o [i \in 1..n |-> tau]]
    /\ revCalls' = revCalls + 1
    /\ RevFrame

RevNext == RevConstruct \/ RevProcess

SpecRev == RevInit /\ [][RevNext]_vars

\* C13: no call of process on a stereo buffer of at most blockSize samples,
\* with every control value in its range, raises an error, and every delay
\* index read lies within [0, maximum delay] of the line read
C13_NoCallRaises ==
    (revCalls >= 1 /\ revLast.acc.channels = 2) =>
        /\ revLast.err = "none"
        /\ \A rd \in revLast.reads : rd.tau >= 0 /\ rd.tau <= rd.z.M

\* mix * wet + (1 - mix) * dry as the claim states it, on finite samples
Blend(mix, wet, dry) ==
    IF mix[1] = 0 THEN dry
    ELSE IF mix[1] = mix[2] THEN wet
    ELSE [k |-> "mix", v |-> [m |-> mix, w |-> wet, d |-> dry]]

\* C14: after process on a stereo buffer, every sample of channels 0 and 1 is
\* mix * wet + (1 - mix) * dry, dry being the input as it was before any
\* filtering: the input itself for mix = 0, the wet sample alone for mix = 1;
\* channels 2..7 hold the wet signal, never blended with the dry one
C14_DryWetBlend ==
    (revCalls >= 1 /\ revLast.err = "none" /\ revLast.acc.channels = 2) =>
        /\ Len(revLast.out) = 8
        /\ Len(revLast.wet) = 8
        /\ \A ch \in 1..2 :
              /\ Len(revLast.out[ch]) = Len(revLast.in[ch])
              /\ \A i \in 1..Len(revLast.in[ch]) :
                    /\ revLast.out[ch][i] =
                          Blend(revLast.c.mix, revLast.wet[ch][i], revLast.in[ch][i])
                    /\ revLast.c.mix = <<0, 1>> =>
                          revLast.out[ch][i] = revLast.in[ch][i]
                    /\ revLast.c.mix = <<1, 1>> =>
                          revLast.out[ch][i] = revLast.wet[ch][i]
        /\ \A ch \in 3..8 : revLast.out[ch] = revLast.wet[ch]

\* a call with a mix strictly between 0 and 1 on a block of two samples
C14_Witness ==
    /\ revCalls >= 1
    /\ revLast.err = "none"
    /\ revLast.acc.channels = 2
    /\ Len(revLast.in[1]) >= 2
    /\ revLast.c.mix = <<1, 2>>

\* C15: the pre-delay stage delays each channel by exactly
\* floor(initialDelay * fs) samples, across block boundaries: sample t of its
\* output is sample t - floor(initialDelay * fs) of its input, zero before the
\* start, and so its input itself when initialDelay = 0
C15_DelayExact ==
    \A ch \in 1..Len(revPre.out) :
        \A t \in 1..Len(revPre.out[ch]) :
            revPre.out[ch][t] =
                IF t - revPre.tau[t] >= 1 THEN revPre.in[ch][t - revPre.tau[t]]
                ELSE RZero



\* C24: process recomputes the low-pass (high-pass) tone-filter coefficients
\* in a call if and only if the call's lowPass (highPass) value differs from
\* the last one applied, and after every call the stored last-applied
\* cutoffs are the cutoffs passed to that call; a call that recomputes
\* nothing leaves the coefficients of every filter as they were.
C24_RecomputeIffChanged ==
    [][(revStatus = "ok" /\ revCalls' = revCalls + 1)
          => /\ revLast'.acc.madeLowPass
                   <=> revLast'.c.lowPass # rev.previousLowPass
             /\ revLast'.acc.madeHighPass
                   <=> revLast'.c.highPass # rev.previousHighPass
             /\ rev'.previousLowPass = revLast'.c.lowPass
             /\ rev'.previousHighPass = revLast'.c.highPass
             /\ ~revLast'.acc.madeLowPass
                   => \A ch \in 1..Len(rev.lowPassFilters) :
                         rev'.lowPassFilters[ch].coefficients
                            = rev.lowPassFilters[ch].coefficients
             /\ ~revLast'.acc.madeHighPass
                   => \A ch \in 1..Len(rev.highPassFilters) :
                         rev'.highPassFilters[ch].coefficients
                            = rev.highPassFilters[ch].coefficients]_vars

\* a second call with the cutoffs of the first, which had changed the
\* low-pass cutoff: it recomputes nothing
C24_Witness ==
    /\ revCalls >= 2
    /\ revLast.err = "none"
    /\ ~revLast.acc.madeLowPass
    /\ ~revLast.acc.madeHighPass
    /\ rev.previousLowPass = 20
    /\ rev.previousHighPass = 20


\* what the last call shows of its stages, sample i of a block of n: the dry
\* snapshot is the input; the pre-delay stage is given the input filtered
\* by the high-pass and then the low-pass filter; the diffusers and networks
\* are given the pre-delay output, of the last channel on every channel
\* added; the stereo-width stage (if widened) is given the output of
\* Diffuser3 on channels 0 and 1; the dry/wet stage is given its output
StagesRanInOrder(widened) ==
    LET numChannels == revLast.acc.channels
        n == Len(revLast.in[1])
        chained(ch, i) ==
            RStage("d3", revFed - n + i - 1,
                RStage("fdn2", revFed - n + i - 1,
                    RStage("d2", revFed - n + i - 1,
                        RStage("fdn1", revFed - n + i - 1,
                            RStage("d1", revFed - n + i - 1,
                                revLast.preOut[IF ch <= numChannels THEN ch
                                               ELSE numChannels][i])))))
    IN  /\ revLast.dry = revLast.in
        /\ \A ch \in 1..numChannels : \A i \in 1..n :
              /\ revLast.preIn[ch][i].k = "lowPass"
              /\ revLast.preIn[ch][i].v.x.k = "highPass"
              /\ revLast.preIn[ch][i].v.x.v.x = revLast.in[ch][i]
        /\ Len(revLast.wet) = 8
        /\ \A ch \in 1..8 : \A i \in 1..n :
              revLast.wet[ch][i] =
                 IF ch <= 2 /\ widened
                 THEN RMidSide(IF ch = 1 THEN 1 ELSE -1, revLast.c.stereoWidth,
                               chained(1, i), chained(2, i))
                 ELSE chained(ch, i)
        /\ \A ch \in 1..8 : \A i \in 1..n :
              revLast.out[ch][i] =
                 IF ch > 2 THEN revLast.wet[ch][i]
                 ELSE Blend(revLast.c.mix, revLast.wet[ch][i],
                            IF ch <= numChannels THEN revLast.dry[ch][i]
                            ELSE RGarbage)

C27_IndicesExist ==
    revCalls >= 1 =>
        /\ \A ch \in revLast.dryRead : ch < revLast.acc.channels
        /\ \A ch \in revLast.acc.filters : ch < revLast.acc.numFilters
        /\ \A ch \in revLast.acc.lines : ch < revLast.acc.numLines


\* C28: after any sequence of process calls in which the cutoffs and the
\* input channel count change between calls, the high-pass and low-pass
\* coefficients that filter each processed channel in a call are the ones
\* derived from that call's highPass and lowPass values.
C28_CoefficientsOfThisCall ==
    revCalls >= 1 =>
        \A ch \in 1..revLast.acc.channels :
            /\ revLast.acc.lowPassUsed[ch] = <<rev.fs, revLast.c.lowPass>>
            /\ revLast.acc.highPassUsed[ch] = <<rev.fs, revLast.c.highPass>>


\* C30: when the channel count of a process call differs from the number of
\* pre-delay lines, all lines are rebuilt, one per input channel, each with
\* maximum delay floor(0.1 * fs) and zeroed, before any sample is read, so
\* that no sample written under the previous channel count is output
\* afterwards; when the count is unchanged the lines keep their contents
\* and cursors across calls.  revPre holds the input and output of the
\* pre-delay stage since the channel count last changed: every output
\* sample is zero or an input sample of that time, the one readSample
\* fetches for the delay of its call, and the cursor of a line has advanced
\* once for every sample of that time.
C30_LinesRebuiltOnChannelChange ==
    revCalls >= 1 =>
        /\ Len(rev.z) = revLast.acc.channels
        /\ \A ch \in 1..Len(rev.z) :
              /\ rev.z[ch].M = TenthOf(rev.fs)
              /\ rev.z[ch].bufferSize = TenthOf(rev.fs) + rev.blockSize
              /\ rev.z[ch].write = Len(revPre.in[ch]) % rev.z[ch].bufferSize
              /\ \A t \in 1..Len(revPre.out[ch]) :
                    revPre.out[ch][t] =
                       IF t - revPre.tau[t] - 1 >= 1
                       THEN revPre.in[ch][t - revPre.tau[t] - 1]
                       ELSE RZero

\* a mono call of one sample with no pre-delay right after a stereo call
\* that had written a sample: the lines were rebuilt and the output of the
\* pre-delay stage is zero
C30_Witness ==
    /\ revCalls >= 2
    /\ revFed >= 2
    /\ revLast.acc.rebuilt
    /\ revLast.acc.channels = 1
    /\ revLast.c.initialDelay = <<0, 1>>
    /\ Len(revLast.in[1]) = 1
    /\ revLast.preOut[1] = <<RZero>>

----------------------------------------------------------------------------
(* The analyser harness: the audio thread runs pushSamples sample by        *)
(* sample; the timer thread runs timerCallback, which asks for the flag and *)
(* fetches the spectrum when the flag was set.  fftSince counts the blocks  *)
(* published since the flag was last read; timer.since is that count as it  *)
(* was when the flag returned was read.                                     *)

FFTFrame == UNCHANGED <<dlVars, rrsVars, hadVars, dvnVars, fdnVars, revVars, combVars,
      diffVars>>

FFTInit ==
    /\ DLIdle
    /\ RRSIdle
    /\ HadIdle
    /\ DVNIdle
    /\ FDNIdle
    /\ RevIdle
    /\ FFTIdle
    /\ CombIdle
    /\ DiffIdle

\* pushSamples, lines 44-61: store the sample, and on a full buffer compute
\* the magnitudes into fftDataBlock
PushSample ==
    /\ audio.pc = "push"
    /\ audio.pushed < MaxFFTBlocks * fft.fftSize
    /\ LET x == audio.pushed + 1
           buf == [fft.fftBuffer EXCEPT ![fft.fftBufferWritePos] = x]
           full == fft.fftBufferWritePos + 1 >= fft.fftSize
       IN  /\ fft' = [fft EXCEPT !.fftBuffer = buf,
                                 !.fftBufferWritePos = IF full THEN 0 ELSE @ + 1]
           /\ audio' = [audio EXCEPT
                          !.pushed = x,
                          !.pc = IF full THEN "lock" ELSE "push",
                          !.fftDataBlock = IF full THEN Magnitudes(buf, fft.fftSize)
                                           ELSE @]
    /\ UNCHANGED <<fftLock, timer, fftSince>>
    /\ FFTFrame

\* pushSamples, line 65
AudioLock ==
    /\ audio.pc = "lock"
    /\ LockIsFree(fftLock)
    /\ fftLock' = "audio"
    /\ audio' = [audio EXCEPT !.pc = "copy", !.k = 0]
    /\ UNCHANGED <<fft, timer, fftSince>>
    /\ FFTFrame

\* pushSamples, lines 66-67: one pass of the copy loop
AudioCopy ==
    /\ audio.pc = "copy"
    /\ audio.k < fft.fftSize \div 2
    /\ fft' = [fft EXCEPT !.fftData[audio.k] = audio.fftDataBlock[audio.k]]
    /\ audio' = [audio EXCEPT !.k = @ + 1]
    /\ UNCHANGED <<fftLock, timer, fftSince>>
    /\ FFTFrame

\* pushSamples, line 68
AudioSetReady ==
    /\ audio.pc = "copy"
    /\ audio.k >= fft.fftSize \div 2
    /\ fft' = [fft EXCEPT !.nextFFTBlockReady = TRUE]
    /\ audio' = [audio EXCEPT !.pc = "unlock"]
    /\ fftSince' = fftSince + 1
    /\ UNCHANGED <<fftLock, timer>>
    /\ FFTFrame

\* pushSamples, line 69: the end of the scope of the lock
AudioUnlock ==
    /\ audio.pc = "unlock"
    /\ fftLock' = "free"
    /\ audio' = [audio EXCEPT !.pc = "push"]
    /\ UNCHANGED <<fft, timer, fftSince>>
    /\ FFTFrame

\* getAndResetFFTReadyFlag, line 90
TimerLockFlag ==
    /\ timer.pc = "idle"
    /\ LockIsFree(fftLock)
    /\ fftLock' = "timer"
    /\ timer' = [timer EXCEPT !.pc = "read"]
    /\ UNCHANGED <<fft, audio, fftSince>>
    /\ FFTFrame

\* getAndResetFFTReadyFlag, line 91
TimerReadFlag ==
    /\ timer.pc = "read"
    /\ timer' = [timer EXCEPT !.pc = "reset", !.ready = fft.nextFFTBlockReady,
                              !.since = fftSince]
    /\ fftSince' = 0
    /\ UNCHANGED <<fft, audio, fftLock>>
    /\ FFTFrame

\* getAndResetFFTReadyFlag, lines 92-93, and the test of timerCallback on
\* what it returns (Spectrogram3DComponent.cpp:82)
TimerResetFlag ==
    /\ timer.pc = "reset"
    /\ fft' = [fft EXCEPT !.nextFFTBlockReady = FALSE]
    /\ fftLock' = "free"
    /\ timer' = [timer EXCEPT !.pc = IF timer.ready THEN "fetch" ELSE "idle",
                              !.flags = IF @ < MaxFFTBlocks THEN @ + 1 ELSE @]
    /\ UNCHANGED <<audio, fftSince>>
    /\ FFTFrame

\* getFFTData, line 80
TimerLockData ==
    /\ timer.pc = "fetch"
    /\ LockIsFree(fftLock)
    /\ fftLock' = "timer"
    /\ timer' = [timer EXCEPT !.pc = "copy", !.k = 0]
    /\ UNCHANGED <<fft, audio, fftSince>>
    /\ FFTFrame

\* getFFTData, line 81: the copy of the vector, element by element
TimerCopy ==
    /\ timer.pc = "copy"
    /\ timer.k < fft.fftSize \div 2
    /\ timer' = [timer EXCEPT !.copy[timer.k] = fft.fftData[timer.k], !.k = @ + 1]
    /\ UNCHANGED <<fft, audio, fftLock, fftSince>>
    /\ FFTFrame

\* getFFTData, lines 81-82: the vector is returned and the lock released
TimerReturnData ==
    /\ timer.pc = "copy"
    /\ timer.k >= fft.fftSize \div 2
    /\ fftLock' = "free"
    /\ timer' = [timer EXCEPT !.pc = "idle", !.fftCopy = timer.copy,
                              !.fetches = IF @ < MaxFFTBlocks THEN @ + 1 ELSE @]
    /\ UNCHANGED <<fft, audio, fftSince>>
    /\ FFTFrame

FFTNext ==
    \/ PushSample \/ AudioLock \/ AudioCopy \/ AudioSetReady \/ AudioUnlock
    \/ TimerLockFlag \/ TimerReadFlag \/ TimerResetFlag
    \/ TimerLockData \/ TimerCopy \/ TimerReturnData

SpecFFT == FFTInit /\ [][FFTNext]_vars

\* C16: under any interleaving of the audio thread in pushSamples and the
\* timer thread in getAndResetFFTReadyFlag and getFFTData, the flag returned
\* is true exactly when a block was completed since the flag was last asked
\* for, and a vector returned by getFFTData is the whole magnitude spectrum
\* of one block, never parts of two
C16_FlagAndSpectrumAtomic ==
    /\ timer.pc \in {"reset", "fetch", "copy"} \/ timer.flags >= 1 =>
          (timer.ready <=> timer.since >= 1)
    /\ timer.fetches >= 1 =>
          \E b \in 1..MaxFFTBlocks :
             timer.fftCopy = Magnitudes(BlockSamples(b, fft.fftSize), fft.fftSize)

\* the timer thread has fetched a spectrum after a flag that was set, and
\* holds the lock again while the audio thread waits with the next block
C16_Witness ==
    /\ timer.fetches >= 1
    /\ timer.ready
    /\ fftLock = "timer"
    /\ audio.pc = "lock"

----------------------------------------------------------------------------
(* The comb harness: one delay line with a feedback gain, driven by all     *)
(* four writing calls.  The samples given are 1, 2, 3, ... in the order     *)
(* they are given; combIn and combOut are the inputs of the processSample   *)
(* calls and the values they stored, combOps the kinds of call made.        *)

MaxCombSamples == 4   \* total number of samples given to one line

\* the gains the repository builds its lines with (0.0f and 1.0f)
CombGains == {0, 1}

CombFrame ==
    UNCHANGED <<dlVars, rrsVars, hadVars, dvnVars, fdnVars, revVars, fftVars,
      diffVars>>

CombInit ==
    /\ DLIdle
    /\ RRSIdle
    /\ HadIdle
    /\ DVNIdle
    /\ FDNIdle
    /\ RevIdle
    /\ FFTIdle
    /\ CombIdle
    /\ DiffIdle

\* sample t (from 1) of the signal given to the line
CombSignal(t) == t

\* the next n samples of the signal
CombBlock(n) == [i \in 1..n |-> CombSignal(combFed + i)]

\* new DelayLine(M, g, maxBlockSize)
CombConstruct ==
    /\ combStatus = "none"
    /\ \E M \in (-1)..MaxM, g \in CombGains, maxBlockSize \in 0..MaxBlock :
          IF DelayLineCtorThrows(M, maxBlockSize)
          THEN /\ combStatus' = "rejected"
               /\ comb' = comb
          ELSE /\ combStatus' = "ok"
               /\ comb' = NewDelayLine(M, g, maxBlockSize)
    /\ UNCHANGED <<combFed, combIn, combOut, combOps, combErr>>
    /\ CombFrame

\* writeSample(x)
CombWriteSample ==
    /\ combStatus = "ok"
    /\ combFed < MaxCombSamples
    /\ comb' = WriteSample(comb, CombSignal(combFed + 1))
    /\ combFed' = combFed + 1
    /\ combOps' = combOps \cup {"writeSample"}
    /\ combErr' = FALSE
    /\ UNCHANGED <<combStatus, combIn, combOut>>
    /\ CombFrame

\* writeBlock(input, n) with a block no longer than the buffer
CombWriteBlock ==
    /\ combStatus = "ok"
    /\ \E n \in 1..comb.bufferSize :
          /\ combFed + n <= MaxCombSamples
          /\ comb' = WriteBlock(comb, CombBlock(n), n)
          /\ combFed' = combFed + n
    /\ combOps' = combOps \cup {"writeBlock"}
    /\ combErr' = FALSE
    /\ UNCHANGED <<combStatus, combIn, combOut>>
    /\ CombFrame

\* processSample(x)
CombProcessSample ==
    /\ combStatus = "ok"
    /\ combFed < MaxCombSamples
    /\ comb' = ProcessSample(comb, CombSignal(combFed + 1))
    /\ combIn' = Append(combIn, CombSignal(combFed + 1))
    /\ combOut' = Append(combOut, comb'.buffer[comb.write])
    /\ combFed' = combFed + 1
    /\ combOps' = combOps \cup {"processSample"}
    /\ combErr' = FALSE
    /\ UNCHANGED combStatus
    /\ CombFrame

\* processBlock(input, n) with a block no longer than the buffer; readBlock
\* throws after the write when n is more than maxBlockSize
CombProcessBlock ==
    /\ combStatus = "ok"
    /\ \E n \in 1..comb.bufferSize :
          /\ combFed + n <= MaxCombSamples
          /\ LET r == ProcessBlock(comb, CombBlock(n), n)
             IN  /\ comb' = r.d
                 /\ combErr' = r.err
          /\ combFed' = combFed + n
    /\ combOps' = combOps \cup {"processBlock"}
    /\ UNCHANGED <<combStatus, combIn, combOut>>
    /\ CombFrame

CombNext ==
    \/ CombConstruct \/ CombWriteSample \/ CombWriteBlock
    \/ CombProcessSample \/ CombProcessBlock

SpecComb == CombInit /\ [][CombNext]_vars

\* C18: processSample stores y[n] = x[n] + g * y[n-M], y[n-M] being the value
\* stored by the processSample call made M calls earlier (zero if there is
\* none), and advances the write cursor by one
C18_CombRecurrence ==
    (combStatus = "ok" /\ comb.M >= 1 /\ combOps \subseteq {"processSample"}) =>
        /\ \A n \in 1..Len(combOut) :
              combOut[n] = combIn[n] + comb.g * SampleAt(combOut, n - comb.M)
        /\ comb.write = Len(combOut) % comb.bufferSize

----------------------------------------------------------------------------
(* The diffuser harness: a Diffuser is built once and process is called     *)
(* once on a buffer of N channels; the steps of the N iterations            *)
(* interleave in any order.                                                 *)

DiffFrame ==
    UNCHANGED <<dlVars, rrsVars, hadVars, dvnVars, fdnVars, revVars, fftVars,
      combVars>>

DiffInit ==
    /\ DLIdle
    /\ RRSIdle
    /\ HadIdle
    /\ DVNIdle
    /\ FDNIdle
    /\ RevIdle
    /\ FFTIdle
    /\ CombIdle
    /\ DiffIdle

\* the sample i of channel ch of the buffer: 0.0 or 1.0, by the phase chosen
DiffSignal(ch, i, phase) == DVNOne * ((ch + i + phase) % 2)

\* new Diffuser(N, M, p, blockSize, fs); pulse m of the convolver of a
\* channel draws <<j, j, j>> with j = (j0 + channel + m) mod RDen
DiffConstruct ==
    /\ diffStatus = "none"
    /\ \E N \in DiffuserChannels, M \in 1..MaxPulses, p \in DVNDensities,
          fs \in DVNRates, blockSize \in 1..MaxDVNBlock, j0 \in 0..(RDen - 1) :
         IF DiffuserCtorThrows(N, blockSize)
         THEN /\ diffStatus' = "rejected"
              /\ diffuser' = diffuser
         ELSE /\ diffStatus' = "ok"
              /\ diffuser' =
                    NewDiffuserConvolvers(N, M, p, blockSize, fs,
                        [channel \in 1..N |->
                            [m \in 1..M |->
                                [x \in 1..3 |-> (j0 + channel + m) % RDen]]])
    /\ UNCHANGED diffRun
    /\ DiffFrame

\* process(buffer) is entered with a buffer of N channels of n samples
DiffBegin ==
    /\ diffStatus = "ok"
    /\ \E n \in 1..Len(diffuser.dvnConvolvers[1].sum1), phase \in 0..1 :
         LET data == [ch \in 1..diffuser.N |->
                         [i \in 1..n |-> DiffSignal(ch, i, phase)]]
         IN  diffRun' = [in |-> data, buf |-> data,
                         before |-> diffuser.dvnConvolvers,
                         pc |-> [ch \in 1..diffuser.N |-> "write"],
                         acc |-> [ch \in 1..diffuser.N |-> {}]]
    /\ diffStatus' = "running"
    /\ UNCHANGED diffuser
    /\ DiffFrame

\* the first step of an iteration
DiffWrite ==
    /\ diffStatus = "running"
    /\ \E channel \in 1..diffuser.N :
         /\ diffRun.pc[channel] = "write"
         /\ diffuser' = IterationWrite(diffuser, diffRun.buf, channel)
         /\ diffRun' = [diffRun EXCEPT
                           !.pc[channel] = "sum",
                           !.acc[channel] = @ \cup IterationAccesses(channel)]
    /\ UNCHANGED diffStatus
    /\ DiffFrame

\* the second step of an iteration
DiffSum ==
    /\ diffStatus = "running"
    /\ \E channel \in 1..diffuser.N :
         /\ diffRun.pc[channel] = "sum"
         /\ diffuser' = IterationSum(diffuser, diffRun.buf, channel)
         /\ diffRun' = [diffRun EXCEPT
                           !.pc[channel] = "copy",
                           !.acc[channel] = @ \cup IterationAccesses(channel)]
    /\ UNCHANGED diffStatus
    /\ DiffFrame

\* the last step of an iteration
DiffCopy ==
    /\ diffStatus = "running"
    /\ \E channel \in 1..diffuser.N :
         /\ diffRun.pc[channel] = "copy"
         /\ diffRun' = [diffRun EXCEPT
                           !.buf = IterationCopy(diffuser, diffRun.buf, channel),
                           !.pc[channel] = "done",
                           !.acc[channel] = @ \cup IterationAccesses(channel)]
    /\ UNCHANGED <<diffuser, diffStatus>>
    /\ DiffFrame

\* process returns when every iteration has ended
DiffEnd ==
    /\ diffStatus = "running"
    /\ \A channel \in 1..diffuser.N : diffRun.pc[channel] = "done"
    /\ diffStatus' = "done"
    /\ UNCHANGED <<diffuser, diffRun>>
    /\ DiffFrame

DiffNext ==
    DiffConstruct \/ DiffBegin \/ DiffWrite \/ DiffSum \/ DiffCopy \/ DiffEnd

SpecDiff == DiffInit /\ [][DiffNext]_vars

----------------------------------------------------------------------------
(* Properties of Diffuser *)

====
